---------------------------- MODULE Spec2Model ----------------------------
(***************************************************************************)
(* Real-time order tracking of the customer app.                           *)
(*                                                                         *)
(*   Spec              the orders session, hooks/useOrdersSocket.ts        *)
(*                     (the version with joinedRoomsRef and                *)
(*                     pendingJoinsRef, lines 88-234), driven by any       *)
(*                     caller: joinOrder, leaveOrder, the orderId option,  *)
(*                     socket connects and disconnects, unmount.           *)
(*   SpecOrdersScreen  screens/OrdersScreen.tsx on top of that session,    *)
(*                     as the app uses it (no orderId option): list        *)
(*                     loads, orderStatusUpdate pushes, the join/leave     *)
(*                     effect, unmount.                                    *)
(*   SpecTrackingClosure the tracking session of hooks/useOrderTracking.ts, *)
(*                     whose handlers close over the orderId of the render *)
(*                     that registered them and which arms the 3000 ms     *)
(*                     fallback timer; any caller, a server that answers   *)
(*                     every request.                                      *)
(*   SpecTrackingSession the tracking session of the later version of the  *)
(*                     hook (unnamed/part_000), whose handlers read        *)
(*                     orderIdRef: one mount observing one order until     *)
(*                     unmount, with every handler, refresh and failures.  *)
(***************************************************************************)
EXTENDS Naturals, Integers, Sequences, FiniteSets, TLC

\* ------------------------------------------------------------------ bounds
\* Order ids are opaque strings in the source; the model uses 1..NumIds.
NumIds == 3

\* The orders of the list screen have ids 1..NumListIds, and GET /orders
\* answers with at most MaxOrders of them.
NumListIds == 2

MaxOrders == 2

ListIds == 1..NumListIds

\* The orders a tracking screen is given have ids 1..NumTrackIds, and the
\* orderId prop changes at most MaxChanges times.
NumTrackIds == 2

MaxChanges == 1

TrackIds == 1..NumTrackIds

Ids == 1..NumIds

\* `orderId?: string` left out, or `orderId: string | null` set to null.
NoOrder == 0

OrderIdOpts == Ids \cup {NoOrder}

\* ------------------------------------------------- Set<string> of the refs
\* A JavaScript Set keeps insertion order and forEach visits it in that
\* order: a Set is a sequence without repetition.
SetHas(s, x) == \E i \in 1..Len(s) : s[i] = x

SetAdd(s, x) == IF SetHas(s, x) THEN s ELSE Append(s, x)

SetDelete(s, x) == SelectSeq(s, LAMBDA y : y # x)

Elems(s) == {s[i] : i \in 1..Len(s)}

\* socket.emit(ev, id)
Emission(ev, id) == [ev |-> ev, id |-> id]

\* Number of times emission e occurs in the sequence out.
Count(out, e) == Cardinality({i \in 1..Len(out) : out[i] = e})

VARIABLES
    mounted,          \* the component that owns the hook is mounted
    connected,        \* useOrdersSocket: socketRef.current.connected
    isConnected,      \* useState isConnected (of the hook the specification runs)
    joinedRoomsRef,   \* joinedRoomsRef.current
    pendingJoinsRef,  \* pendingJoinsRef.current
    orderId,          \* the orderId option (prop) of the latest render
    mountOrderId,     \* the orderId the connect handler closed over (deps [])
    emitted,          \* what the last handler emitted on the socket, in order
    lastOp,           \* the last handler that ran, with its argument
    leftIds,          \* ids removed with leaveOrder and not requested since
    queuedByJoin,     \* ids joinOrder queued since the last disconnect
    orders,           \* OrdersScreen: useState orders
    previousOrderIdsRef, \* OrdersScreen: previousOrderIdsRef.current
    joinCalls,        \* joinOrder calls of the join/leave effect, last handler
    leaveCalls,       \* leaveOrder calls of the join/leave effect, last handler
    e2eStage,         \* per order, how far the queue/connect/push scenario got
    trackingData,     \* useOrderTracking: useState trackingData
    driverLocation,   \* useState driverLocation
    error,            \* useState error
    socketRef,        \* socketRef.current: 0 for null, else an index of sockets
    orderIdRef,       \* orderIdRef.current
    hasConnectedRef,  \* hasConnectedRef.current
    sockets,          \* every socket io() has created, in creation order
    tokenReads,       \* SecureStore.getItemAsync('token') calls not yet settled
    restCalls,        \* order ids of GET /tracking/order/:id calls in flight
    acks,             \* getOrderTracking requests whose acknowledgment is due
    timers,           \* armed 3000 ms fallback timers
    hasCleanup,       \* the last run of the main effect returned a cleanup
    changes,          \* how often the orderId prop has changed
    pixData,          \* CheckoutScreen: useState pixData is not null
    pollInterval,     \* the order the armed setInterval polls, 0 for none
    polls,            \* per order, GET /orders/:id requests of a tick in flight
    confirmed,        \* per order, how often the payment-confirmed branch ran
    paid              \* the orders whose paymentStatus is PAID on the server

hookVars == <<mounted, connected, isConnected, joinedRoomsRef, pendingJoinsRef,
              orderId, mountOrderId, emitted, lastOp, leftIds, queuedByJoin>>

screenVars == <<orders, previousOrderIdsRef, joinCalls, leaveCalls, e2eStage>>

trackVars == <<trackingData, driverLocation, error, socketRef, orderIdRef,
               hasConnectedRef, sockets, tokenReads, restCalls, acks, timers,
               hasCleanup, changes>>

checkoutVars == <<pixData, pollInterval, polls, confirmed, paid>>

vars == <<hookVars, screenVars, trackVars, checkoutVars>>

\* n is 2 for a joinOrder call when the handler before it was the same call
\* with the same argument ("twice in a row"), else 1.
Op(op, id) ==
    [op |-> op, id |-> id,
     n |-> IF op = "joinOrder" /\ lastOp.op = op /\ lastOp.id = id THEN 2 ELSE 1]

\* The refs a handler reads and writes, with the emissions it has made.
Refs == [joined |-> joinedRoomsRef, pending |-> pendingJoinsRef,
         connected |-> connected, out |-> <<>>]

\* ---------------------------------------------------------------- handlers
\* joinOrder without the `joinedRoomsRef.current.has(id)` early return.
joinOrderNoGuard(r, id) ==
    IF r.connected
    THEN [r EXCEPT !.out = Append(@, Emission("joinOrder", id)),
                   !.joined = SetAdd(@, id)]
    ELSE [r EXCEPT !.pending = SetAdd(@, id)]

joinOrder(r, id) ==
    IF SetHas(r.joined, id)
    THEN r
    ELSE IF r.connected
         THEN [r EXCEPT !.out = Append(@, Emission("joinOrder", id)),
                        !.joined = SetAdd(@, id)]
         ELSE [r EXCEPT !.pending = SetAdd(@, id)]

\* A leaveOrder that forgets a JOINED room only while the socket is
\* connected.
leaveOrderOnlyWhenConnected(r, id) ==
    IF SetHas(r.joined, id) /\ r.connected
    THEN [r EXCEPT !.out = Append(@, Emission("leaveOrder", id)),
                   !.joined = SetDelete(@, id),
                   !.pending = SetDelete(@, id)]
    ELSE [r EXCEPT !.pending = SetDelete(@, id)]

\* leaveOrder that forgets pendingJoinsRef.current.delete(id).
leaveOrderKeepsPending(r, id) ==
    IF SetHas(r.joined, id) /\ r.connected
    THEN [r EXCEPT !.out = Append(@, Emission("leaveOrder", id)),
                   !.joined = SetDelete(@, id)]
    ELSE [r EXCEPT !.joined = SetDelete(@, id)]

leaveOrder(r, id) ==
    LET p == [r EXCEPT !.pending = SetDelete(@, id)]
    IN  IF SetHas(p.joined, id) /\ p.connected
        THEN [p EXCEPT !.out = Append(@, Emission("leaveOrder", id)),
                       !.joined = SetDelete(@, id)]
        ELSE [p EXCEPT !.joined = SetDelete(@, id)]

\* joinedRoomsRef.current.forEach(roomId => socket.emit('joinOrder', roomId))
RECURSIVE rejoinAll(_, _)
rejoinAll(r, rooms) ==
    IF rooms = <<>>
    THEN r
    ELSE rejoinAll([r EXCEPT !.out = Append(@, Emission("joinOrder", Head(rooms)))],
                   Tail(rooms))

\* pendingJoinsRef.current.forEach(roomId => { emit; joinedRoomsRef.add })
RECURSIVE processPending(_, _)
processPending(r, rooms) ==
    IF rooms = <<>>
    THEN r
    ELSE processPending(
             [r EXCEPT !.out = Append(@, Emission("joinOrder", Head(rooms))),
                       !.joined = SetAdd(@, Head(rooms))],
             Tail(rooms))

\* A connect handler that leaves the pending joins queued.
onConnectDropsPending(r, oid) ==
    LET a == rejoinAll([r EXCEPT !.connected = TRUE], r.joined)
    IN  IF oid # NoOrder /\ ~SetHas(a.joined, oid)
        THEN [a EXCEPT !.out = Append(@, Emission("joinOrder", oid)),
                       !.joined = SetAdd(@, oid)]
        ELSE a

\* socket.on('connect', ...): oid is the orderId of the render that created
\* the socket.
onConnect(r, oid) ==
    LET a == rejoinAll([r EXCEPT !.connected = TRUE], r.joined)
        b == processPending(a, a.pending)
        c == [b EXCEPT !.pending = <<>>]
    IN  IF oid # NoOrder /\ ~SetHas(c.joined, oid)
        THEN [c EXCEPT !.out = Append(@, Emission("joinOrder", oid)),
                       !.joined = SetAdd(@, oid)]
        ELSE c

\* An orderId effect that queues the option whatever the connection state.
orderIdEffectAlwaysQueues(r, oid) ==
    IF oid = NoOrder THEN r ELSE [r EXCEPT !.pending = SetAdd(@, oid)]

\* The body of the orderId effect.
orderIdEffect(r, oid) ==
    IF oid = NoOrder
    THEN r
    ELSE IF r.connected
         THEN IF ~SetHas(r.joined, oid)
              THEN [r EXCEPT !.out = Append(@, Emission("joinOrder", oid)),
                             !.joined = SetAdd(@, oid)]
              ELSE r
         ELSE [r EXCEPT !.pending = SetAdd(@, oid)]

\* The cleanup the orderId effect returned for oid (none when oid was empty).
orderIdCleanup(r, oid) ==
    IF oid = NoOrder
    THEN r
    ELSE LET a == IF r.connected
                  THEN [r EXCEPT !.out = Append(@, Emission("leaveOrder", oid)),
                                 !.joined = SetDelete(@, oid)]
                  ELSE r
         IN  [a EXCEPT !.pending = SetDelete(@, oid)]

\* joinedRoomsRef.current.forEach(roomId => socket.emit('leaveOrder', roomId))
RECURSIVE leaveAll(_, _)
leaveAll(r, rooms) ==
    IF rooms = <<>>
    THEN r
    ELSE leaveAll([r EXCEPT !.out = Append(@, Emission("leaveOrder", Head(rooms)))],
                  Tail(rooms))

\* A cleanup of the socket effect that neither forgets the rooms nor
\* disconnects.
socketCleanupKeepsRooms(r) ==
    [leaveAll(r, r.joined) EXCEPT !.pending = <<>>]

\* The cleanup of the socket effect: leaveOrder for every joined room, both
\* sets cleared, then socket.disconnect() (recorded after the emissions).
socketCleanup(r) ==
    LET a == leaveAll(r, r.joined)
    IN  [a EXCEPT !.joined = <<>>, !.pending = <<>>, !.connected = FALSE,
                  !.out = Append(@, Emission("disconnect", NoOrder))]

\* ----------------------------------------------------------------- actions
Commit(rs) ==
    \E r \in {rs} :
    /\ joinedRoomsRef' = r.joined
    /\ pendingJoinsRef' = r.pending
    /\ connected' = r.connected
    /\ emitted' = r.out

\* After the first render and its effects: the socket exists and is not yet
\* connected, so the orderId effect has queued the option.
HookInit ==
    /\ mounted = TRUE
    /\ connected = FALSE
    /\ isConnected = FALSE
    /\ orderId \in OrderIdOpts
    /\ mountOrderId = orderId
    /\ joinedRoomsRef = <<>>
    /\ pendingJoinsRef = (IF orderId = NoOrder THEN <<>> ELSE <<orderId>>)
    /\ emitted = <<>>
    /\ lastOp = [op |-> "mount", id |-> orderId, n |-> 1]
    /\ leftIds = {}
    /\ queuedByJoin = {}

SocketConnect ==
    /\ mounted
    /\ ~connected
    /\ Commit(onConnect(Refs, mountOrderId))
    /\ isConnected' = TRUE
    /\ lastOp' = Op("connect", NoOrder)
    /\ e2eStage' = [id \in Ids |-> IF e2eStage[id] = 1 THEN 2 ELSE e2eStage[id]]
    /\ joinCalls' = <<>>
    /\ leaveCalls' = <<>>
    /\ UNCHANGED <<mounted, orderId, mountOrderId, leftIds, queuedByJoin,
                   orders, previousOrderIdsRef>>
    /\ UNCHANGED <<trackVars, checkoutVars>>

SocketDisconnect ==
    /\ mounted
    /\ connected
    /\ connected' = FALSE
    /\ isConnected' = FALSE
    /\ emitted' = <<>>
    /\ lastOp' = Op("disconnect", NoOrder)
    /\ queuedByJoin' = {}
    /\ joinCalls' = <<>>
    /\ leaveCalls' = <<>>
    /\ UNCHANGED <<mounted, joinedRoomsRef, pendingJoinsRef, orderId,
                   mountOrderId, leftIds, orders, previousOrderIdsRef, e2eStage>>
    /\ UNCHANGED <<trackVars, checkoutVars>>

SocketConnectError ==
    /\ mounted
    /\ ~connected
    /\ isConnected' = FALSE
    /\ emitted' = <<>>
    /\ lastOp' = Op("connect_error", NoOrder)
    /\ joinCalls' = <<>>
    /\ leaveCalls' = <<>>
    /\ UNCHANGED <<mounted, connected, joinedRoomsRef, pendingJoinsRef, orderId,
                   mountOrderId, leftIds, queuedByJoin, orders,
                   previousOrderIdsRef, e2eStage>>
    /\ UNCHANGED <<trackVars, checkoutVars>>

JoinOrder(id) ==
    /\ mounted
    /\ Commit(joinOrder(Refs, id))
    /\ lastOp' = Op("joinOrder", id)
    /\ leftIds' = leftIds \ {id}
    /\ queuedByJoin' = (IF ~connected /\ ~SetHas(joinedRoomsRef, id)
                        THEN queuedByJoin \cup {id}
                        ELSE queuedByJoin)
    /\ UNCHANGED <<mounted, isConnected, orderId, mountOrderId, screenVars>>
    /\ UNCHANGED <<trackVars, checkoutVars>>

LeaveOrder(id) ==
    /\ mounted
    /\ Commit(leaveOrder(Refs, id))
    /\ lastOp' = Op("leaveOrder", id)
    /\ leftIds' = leftIds \cup {id}
    /\ queuedByJoin' = queuedByJoin \ {id}
    /\ UNCHANGED <<mounted, isConnected, orderId, mountOrderId, screenVars>>
    /\ UNCHANGED <<trackVars, checkoutVars>>

\* A render with another orderId option: the cleanup of the previous run of
\* the orderId effect, then the effect with the new option.
SetOrderId(new) ==
    /\ mounted
    /\ new # orderId
    /\ Commit(orderIdEffect(orderIdCleanup(Refs, orderId), new))
    /\ orderId' = new
    /\ lastOp' = Op("setOrderId", new)
    /\ leftIds' = leftIds \ {new}
    /\ queuedByJoin' = queuedByJoin \ {orderId}
    /\ UNCHANGED <<mounted, isConnected, mountOrderId, screenVars>>
    /\ UNCHANGED <<trackVars, checkoutVars>>

\* Unmount: the effects' cleanups run in the order the effects were declared.
Unmount ==
    /\ mounted
    /\ Commit(orderIdCleanup(socketCleanup(Refs), orderId))
    /\ mounted' = FALSE
    /\ lastOp' = Op("unmount", NoOrder)
    /\ queuedByJoin' = {}
    /\ UNCHANGED <<isConnected, orderId, mountOrderId, leftIds, screenVars>>
    /\ UNCHANGED <<trackVars, checkoutVars>>

CallJoinOrder == \E id \in Ids : JoinOrder(id)

CallLeaveOrder == \E id \in Ids : LeaveOrder(id)

ChangeOrderId == \E new \in OrderIdOpts : SetOrderId(new)

\* The screen state of a session no screen drives.
ScreenIdle ==
    /\ orders = <<>>
    /\ previousOrderIdsRef = <<>>
    /\ joinCalls = <<>>
    /\ leaveCalls = <<>>
    /\ e2eStage = [id \in Ids |-> 0]

\* The tracking state of a session no tracking screen drives.
TrackingIdle ==
    /\ trackingData = [orderId |-> NoOrder]
    /\ driverLocation = [driverId |-> NoOrder]
    /\ error = "null"
    /\ socketRef = 0
    /\ orderIdRef = NoOrder
    /\ hasConnectedRef = FALSE
    /\ sockets = <<>>
    /\ tokenReads = {}
    /\ restCalls = {}
    /\ acks = {}
    /\ timers = {}
    /\ hasCleanup = FALSE
    /\ changes = 0

\* The checkout state of a session in which no order has been placed.
CheckoutIdle ==
    /\ pixData = FALSE
    /\ pollInterval = NoOrder
    /\ polls = [id \in TrackIds |-> 0]
    /\ confirmed = [id \in TrackIds |-> 0]
    /\ paid = {}

Init == HookInit /\ ScreenIdle /\ TrackingIdle /\ CheckoutIdle

Next ==
    \/ SocketConnect
    \/ SocketDisconnect
    \/ SocketConnectError
    \/ CallJoinOrder
    \/ CallLeaveOrder
    \/ ChangeOrderId
    \/ Unmount

Spec == Init /\ [][Next]_vars

\* ------------------------------------------------------------ OrdersScreen
\* The order statuses of statusLabels the model draws from; DELIVERED and
\* CANCELLED are the two the activeOrderIds filter drops.
Statuses == {"PREPARING", "DELIVERED", "CANCELLED"}

TerminalStatuses == {"DELIVERED", "CANCELLED"}

\* An Order of the list: its id, its status, and its display fields, which
\* the model folds into one field.
Order(id, status) == [id |-> id, status |-> status, display |-> id + 100]

\* What GET /orders can answer: at most MaxOrders orders with distinct ids,
\* always in the same relative order (the ids are numbered in that order).
OrderLists ==
    UNION {{[i \in 1..n |-> Order(ids[i], sts[i])] :
               ids \in {f \in [1..n -> ListIds] :
                           \A i, j \in 1..n : i < j => f[i] < f[j]},
               sts \in [1..n -> Statuses]} : n \in 0..MaxOrders}

\* An activeOrderIds whose filter drops CANCELLED orders only.
activeOrderIdsKeepsDelivered(os) ==
    LET act == SelectSeq(os, LAMBDA o : o.status # "CANCELLED")
    IN  [i \in 1..Len(act) |-> act[i].id]

\* orders.filter(o => !['DELIVERED','CANCELLED'].includes(o.status)).map(o => o.id)
activeOrderIds(os) ==
    LET act == SelectSeq(os, LAMBDA o : o.status \notin TerminalStatuses)
    IN  [i \in 1..Len(act) |-> act[i].id]

\* A status handler that replaces the matching entry by the pushed fields.
handleOrderStatusUpdateReplaces(os, data) ==
    [i \in 1..Len(os) |->
        IF os[i].id = data.orderId
        THEN [id |-> data.orderId, status |-> data.status]
        ELSE os[i]]

\* A status handler that adds an entry for an order the list does not hold.
handleOrderStatusUpdateAppends(os, data) ==
    IF \E i \in 1..Len(os) : os[i].id = data.orderId
    THEN [i \in 1..Len(os) |->
             IF os[i].id = data.orderId
             THEN [os[i] EXCEPT !.status = data.status]
             ELSE os[i]]
    ELSE Append(os, [id |-> data.orderId, status |-> data.status,
                     display |-> data.orderId + 100])

\* prev.map(o => o.id === data.orderId ? { ...o, status: data.status } : o)
handleOrderStatusUpdate(os, data) ==
    [i \in 1..Len(os) |->
        IF os[i].id = data.orderId
        THEN [os[i] EXCEPT !.status = data.status]
        ELSE os[i]]

\* toJoin.forEach(joinOrder)
RECURSIVE joinEach(_, _)
joinEach(r, ids) ==
    IF ids = <<>> THEN r ELSE joinEach(joinOrder(r, Head(ids)), Tail(ids))

\* toLeave.forEach(leaveOrder)
RECURSIVE leaveEach(_, _)
leaveEach(r, ids) ==
    IF ids = <<>> THEN r ELSE leaveEach(leaveOrder(r, Head(ids)), Tail(ids))

\* A join/leave effect that leaves every previous id, not only the dropped.
syncEffectLeavesAll(r, previousIds, currentIds) ==
    LET toJoin == SelectSeq(currentIds, LAMBDA id : ~SetHas(previousIds, id))
        toLeave == previousIds
    IN  [refs |-> leaveEach(joinEach(r, toJoin), toLeave),
         toJoin |-> toJoin, toLeave |-> toLeave, previous |-> currentIds]

\* A join/leave effect that does not store the ids it has synchronized.
syncEffectKeepsPrevious(r, previousIds, currentIds) ==
    LET toJoin == SelectSeq(currentIds, LAMBDA id : ~SetHas(previousIds, id))
        toLeave == SelectSeq(previousIds, LAMBDA id : ~SetHas(currentIds, id))
    IN  [refs |-> leaveEach(joinEach(r, toJoin), toLeave),
         toJoin |-> toJoin, toLeave |-> toLeave, previous |-> previousIds]

\* The join/leave effect: the calls it makes, the refs after them and the
\* new previousOrderIdsRef.current.
syncEffect(r, previousIds, currentIds) ==
    LET toJoin == SelectSeq(currentIds, LAMBDA id : ~SetHas(previousIds, id))
        toLeave == SelectSeq(previousIds, LAMBDA id : ~SetHas(currentIds, id))
    IN  [refs |-> leaveEach(joinEach(r, toJoin), toLeave),
         toJoin |-> toJoin, toLeave |-> toLeave, previous |-> currentIds]

\* The effect's dependency is activeOrderIds.join(','): it runs after a render
\* whose active ids differ from those of its last run, which are the ids it
\* stored in previousOrderIdsRef (order ids hold no comma).
effectAfterRender(r, previousIds, os) ==
    IF activeOrderIds(os) # previousIds
    THEN syncEffect(r, previousIds, activeOrderIds(os))
    ELSE [refs |-> r, toJoin |-> <<>>, toLeave |-> <<>>, previous |-> previousIds]

\* The scenario an order is in: 1 queued while the socket was not connected,
\* 2 announced by the connect after that, 3 pushed PREPARING after that,
\* 4 pushed DELIVERED after that; 0 anything else.
stageAfterRender(id, currentIds, push) ==
    LET was == SetHas(previousOrderIdsRef, id)
        is == SetHas(currentIds, id)
    IN  IF is /\ ~was THEN (IF connected THEN 0 ELSE 1)
        ELSE IF push.orderId = id /\ push.status = "PREPARING" /\ e2eStage[id] = 2
             THEN 3
        ELSE IF push.orderId = id /\ push.status = "DELIVERED" /\ e2eStage[id] = 3
             THEN 4
        ELSE IF was /\ ~is THEN 0
        ELSE e2eStage[id]

\* setOrders(os), the render and the join/leave effect after it.
Render(os, push, op) ==
    \E e \in {effectAfterRender(Refs, previousOrderIdsRef, os)} :
        /\ orders' = os
        /\ Commit(e.refs)
        /\ previousOrderIdsRef' = e.previous
        /\ joinCalls' = e.toJoin
        /\ leaveCalls' = e.toLeave
        /\ e2eStage' = [id \in Ids |-> stageAfterRender(id, e.previous, push)]
        /\ lastOp' = op
        /\ UNCHANGED <<mounted, isConnected, orderId, mountOrderId, leftIds,
                       queuedByJoin>>
        /\ UNCHANGED <<trackVars, checkoutVars>>

NoPush == [orderId |-> NoOrder, status |-> "PREPARING"]

\* loadOrders: orderService.getMyOrders() answered with data.
LoadOrders(data) ==
    /\ mounted
    /\ Render(data, NoPush, Op("loadOrders", NoOrder))

\* The socket delivers orderStatusUpdate and the hook hands it to
\* handleOrderStatusUpdate through onOrderStatusUpdateRef.
OrderStatusUpdate(data) ==
    /\ mounted
    /\ connected
    /\ Render(handleOrderStatusUpdate(orders, data), data,
              Op("orderStatusUpdate", data.orderId))

\* Unmount of the screen: the hook's cleanups, then the screen's own cleanup,
\* which calls leaveOrder for every id of previousOrderIdsRef.current.
ScreenUnmount ==
    /\ mounted
    /\ Commit(leaveEach(orderIdCleanup(socketCleanup(Refs), orderId),
                        previousOrderIdsRef))
    /\ mounted' = FALSE
    /\ joinCalls' = <<>>
    /\ leaveCalls' = previousOrderIdsRef
    /\ lastOp' = Op("unmount", NoOrder)
    /\ UNCHANGED <<isConnected, orderId, mountOrderId, orders, leftIds,
                   queuedByJoin, previousOrderIdsRef, e2eStage>>
    /\ UNCHANGED <<trackVars, checkoutVars>>

FetchOrders == \E data \in OrderLists : LoadOrders(data)

PushOrderStatus ==
    \E id \in ListIds, st \in Statuses :
        OrderStatusUpdate([orderId |-> id, status |-> st])

\* The screen passes no orderId option.
ScreenInit ==
    /\ HookInit
    /\ orderId = NoOrder
    /\ ScreenIdle
    /\ TrackingIdle
    /\ CheckoutIdle

ScreenNext ==
    \/ SocketConnect
    \/ SocketDisconnect
    \/ SocketConnectError
    \/ FetchOrders
    \/ PushOrderStatus
    \/ ScreenUnmount

SpecOrdersScreen == ScreenInit /\ [][ScreenNext]_vars

\* ------------------------------------------------- claims, orders session
JoinEm(id) == Emission("joinOrder", id)

LeaveEm(id) == Emission("leaveOrder", id)

\* How many times id is recorded in the two refs together.
Recorded(joined, pending, id) ==
    Cardinality({i \in 1..Len(joined) : joined[i] = id})
        + Cardinality({i \in 1..Len(pending) : pending[i] = id})

\* C1: a reconnect (a connect right after a disconnect) emits joinOrder
\* exactly once for every id that is JOINED and emits no joinOrder for an id
\* that was removed with leaveOrder before the disconnect.
C1_ReconnectReplay ==
    [][(lastOp.op = "disconnect" /\ lastOp'.op = "connect" /\ SocketConnect)
        => /\ \A id \in Elems(joinedRoomsRef) : Count(emitted', JoinEm(id)) = 1
           /\ \A id \in leftIds : Count(emitted', JoinEm(id)) = 0]_vars

\* C2: joinOrder(id) on an id that is not JOINED emits joinOrder once when
\* connected, and queues id without emitting when not (the next connect then
\* emits it once); either way id is recorded exactly once. A call on a JOINED
\* id emits nothing, and the second of two calls in a row emits nothing and
\* changes no state.
C2_IdempotentJoin ==
    [][/\ \A id \in Ids :
            (lastOp'.op = "joinOrder" /\ JoinOrder(id)) =>
              /\ (lastOp.op = "joinOrder" /\ lastOp.id = id)
                    => /\ emitted' = <<>>
                       /\ joinedRoomsRef' = joinedRoomsRef
                       /\ pendingJoinsRef' = pendingJoinsRef
                       /\ connected' = connected
              /\ SetHas(joinedRoomsRef, id) => emitted' = <<>>
              /\ (~SetHas(joinedRoomsRef, id) /\ connected)
                    => /\ emitted' = <<JoinEm(id)>>
                       /\ SetHas(joinedRoomsRef', id)
              /\ (~SetHas(joinedRoomsRef, id) /\ ~connected)
                    => /\ emitted' = <<>>
                       /\ SetHas(pendingJoinsRef', id)
              /\ ~SetHas(joinedRoomsRef, id)
                    => Recorded(joinedRoomsRef', pendingJoinsRef', id) = 1
       /\ (lastOp'.op = "connect" /\ SocketConnect)
            => \A id \in queuedByJoin : Count(emitted', JoinEm(id)) = 1]_vars

\* The second of two joinOrder calls in a row has run on a connected socket,
\* and the id is JOINED.
C2_Witness ==
    /\ lastOp.op = "joinOrder"
    /\ lastOp.n = 2
    /\ connected
    /\ emitted = <<>>
    /\ SetHas(joinedRoomsRef, lastOp.id)

\* C3: joinOrder(C) on a socket that is not connected, for a C that is not
\* JOINED, emits nothing and leaves C PENDING; C stays PENDING and not JOINED
\* until the connect handler runs, which emits joinOrder(C) exactly once,
\* makes C JOINED and leaves nothing PENDING.
C3_PendingPromotion ==
    [][/\ \A id \in Ids :
            (lastOp'.op = "joinOrder" /\ JoinOrder(id)
                /\ ~connected /\ ~SetHas(joinedRoomsRef, id))
              => /\ emitted' = <<>>
                 /\ SetHas(pendingJoinsRef', id)
                 /\ ~SetHas(joinedRoomsRef', id)
                 /\ id \in queuedByJoin'
       /\ ~connected'
            => \A id \in queuedByJoin' :
                  SetHas(pendingJoinsRef', id) /\ ~SetHas(joinedRoomsRef', id)
       /\ (lastOp'.op = "connect" /\ SocketConnect)
            => \A id \in queuedByJoin :
                  /\ Count(emitted', JoinEm(id)) = 1
                  /\ SetHas(joinedRoomsRef', id)
                  /\ ~SetHas(pendingJoinsRef', id)]_vars

\* The connect handler has just promoted an id that joinOrder had queued.
C3_Witness ==
    /\ lastOp.op = "connect"
    /\ \E id \in queuedByJoin :
          /\ Count(emitted, JoinEm(id)) = 1
          /\ SetHas(joinedRoomsRef, id)
          /\ id # mountOrderId

\* C9: whenever the socket is connected nothing is PENDING, and the connect
\* handler emits joinOrder for every id that was PENDING or JOINED and leaves
\* every one of them JOINED.
C9_PendingOnlyWhileDisconnected ==
    [][/\ connected' => pendingJoinsRef' = <<>>
       /\ (lastOp'.op = "connect" /\ SocketConnect)
            => \A id \in Elems(joinedRoomsRef) \cup Elems(pendingJoinsRef) :
                  /\ Count(emitted', JoinEm(id)) >= 1
                  /\ SetHas(joinedRoomsRef', id)]_vars

\* The connect handler has re-announced a room that was JOINED before and
\* promoted one that joinOrder had queued.
C9_Witness ==
    /\ lastOp.op = "connect"
    /\ connected
    /\ pendingJoinsRef = <<>>
    /\ \E a \in queuedByJoin, b \in Elems(joinedRoomsRef) \ queuedByJoin :
          /\ b # mountOrderId
          /\ Count(emitted, JoinEm(a)) >= 1
          /\ Count(emitted, JoinEm(b)) >= 1

\* C10: leaveOrder(id) emits leaveOrder exactly once when the socket is
\* connected and id is JOINED, emits nothing when id is not JOINED (only
\* PENDING, or tracked nowhere), changes nothing when id is tracked nowhere,
\* and always leaves id in neither set and every other id where it was.
C10_LeaveOrder ==
    [][\A id \in Ids :
          (lastOp'.op = "leaveOrder" /\ LeaveOrder(id)) =>
            /\ (connected /\ SetHas(joinedRoomsRef, id)) => emitted' = <<LeaveEm(id)>>
            /\ ~SetHas(joinedRoomsRef, id) => emitted' = <<>>
            /\ (~SetHas(joinedRoomsRef, id) /\ ~SetHas(pendingJoinsRef, id))
                  => /\ joinedRoomsRef' = joinedRoomsRef
                     /\ pendingJoinsRef' = pendingJoinsRef
                     /\ connected' = connected
            /\ ~SetHas(joinedRoomsRef', id)
            /\ ~SetHas(pendingJoinsRef', id)
            /\ joinedRoomsRef' = SetDelete(joinedRoomsRef, id)
            /\ pendingJoinsRef' = SetDelete(pendingJoinsRef, id)]_vars

\* leaveOrder has just left a JOINED room on a connected socket.
C10_Witness ==
    /\ lastOp.op = "leaveOrder"
    /\ connected
    /\ emitted = <<LeaveEm(lastOp.id)>>
    /\ ~SetHas(joinedRoomsRef, lastOp.id)

\* -------------------------------------------------- claims, orders screen
\* The status the list shows for order id ("" when the list has no such order).
StatusOf(os, id) ==
    IF \E i \in 1..Len(os) : os[i].id = id
    THEN os[CHOOSE i \in 1..Len(os) : os[i].id = id].status
    ELSE ""

\* C6: a render of the list makes the join/leave effect call joinOrder exactly
\* once for each id that is active now and was not before, leaveOrder exactly
\* once for each id that was active and is not now, nothing for any other id,
\* and store the current active ids as the previous ones; the session then
\* tracks every id joined and none of the ids left.
C6_ListDelta ==
    [][lastOp'.op \in {"loadOrders", "orderStatusUpdate"} =>
          LET cur == Elems(activeOrderIds(orders'))
              prev == Elems(previousOrderIdsRef)
          IN  /\ \A id \in Ids :
                    /\ Count(joinCalls', id) = (IF id \in cur \ prev THEN 1 ELSE 0)
                    /\ Count(leaveCalls', id) = (IF id \in prev \ cur THEN 1 ELSE 0)
              /\ previousOrderIdsRef' = activeOrderIds(orders')
              /\ \A id \in cur \ prev :
                    SetHas(joinedRoomsRef', id) \/ SetHas(pendingJoinsRef', id)
              /\ \A id \in prev \ cur :
                    ~SetHas(joinedRoomsRef', id) /\ ~SetHas(pendingJoinsRef', id)]_vars

\* A list load whose effect run both joined an order and left another.
C6_Witness ==
    /\ lastOp.op = "loadOrders"
    /\ joinCalls # <<>>
    /\ leaveCalls # <<>>

\* C8: an order that becomes active while the socket is not connected is
\* handed to joinOrder once, emits nothing and is PENDING; the connect after
\* that emits joinOrder for it once and makes it JOINED; an orderStatusUpdate
\* PREPARING after that makes the list show PREPARING; an orderStatusUpdate
\* DELIVERED after that makes the effect call leaveOrder for it once, which
\* emits leaveOrder once and leaves it in neither set.
C8_EndToEnd ==
    [][\A id \in ListIds :
          /\ (e2eStage[id] # 1 /\ e2eStage'[id] = 1)
                => /\ Count(joinCalls', id) = 1
                   /\ Count(emitted', JoinEm(id)) = 0
                   /\ SetHas(pendingJoinsRef', id)
                   /\ ~SetHas(joinedRoomsRef', id)
          /\ (e2eStage[id] = 1 /\ e2eStage'[id] = 2)
                => /\ Count(emitted', JoinEm(id)) = 1
                   /\ SetHas(joinedRoomsRef', id)
                   /\ ~SetHas(pendingJoinsRef', id)
          /\ (e2eStage[id] = 2 /\ e2eStage'[id] = 3)
                => /\ StatusOf(orders', id) = "PREPARING"
                   /\ SetHas(joinedRoomsRef', id)
          /\ (e2eStage[id] = 3 /\ e2eStage'[id] = 4)
                => /\ StatusOf(orders', id) = "DELIVERED"
                   /\ Count(leaveCalls', id) = 1
                   /\ Count(emitted', LeaveEm(id)) = 1
                   /\ ~SetHas(joinedRoomsRef', id)
                   /\ ~SetHas(pendingJoinsRef', id)]_vars

\* An order has gone through the whole scenario: queued, announced by the
\* connect, shown PREPARING, and left on DELIVERED.
C8_Witness ==
    \E id \in ListIds :
        /\ e2eStage[id] = 4
        /\ lastOp = [op |-> "orderStatusUpdate", id |-> id, n |-> 1]
        /\ StatusOf(orders, id) = "DELIVERED"
        /\ emitted = <<LeaveEm(id)>>


(***************************************************************************)
(* Order tracking: the data a tracking session holds and receives.         *)
(***************************************************************************)

NoData == [orderId |-> NoOrder]

NoLocation == [driverId |-> NoOrder]

NoDriver == [id |-> NoOrder]

NoError == "null"

\* A field the sender left out (undefined).
Undefined == "undefined"

\* TrackingData.driver: null, or a driver with a last known location
\* (location: null is a driver whose id is set and whose latitude is 0).
DriverOf(id, hasLocation) ==
    [id |-> id + 10,
     location |-> IF hasLocation
                  THEN [latitude |-> 1, longitude |-> 1, lastUpdate |-> 1]
                  ELSE [latitude |-> 0, longitude |-> 0, lastUpdate |-> 0]]

HasLocation(data) == data.driver # NoDriver /\ data.driver.location.latitude # 0

TrackStatuses == {"PREPARING", "DELIVERED"}

\* The snapshots the server has of order id: with a driver on the way, and
\* before a driver took the order.
Snapshot(id, driver) ==
    [orderId |-> id, status |-> "PREPARING", driver |-> driver, restaurant |-> id + 20]

ServerSnapshots(id) == {Snapshot(id, DriverOf(id, TRUE)), Snapshot(id, NoDriver)}

\* The answers of a server on which every order has a driver on the way.
DrivenSnapshots(id) == {Snapshot(id, DriverOf(id, TRUE))}

\* driverLocation pushes: a sample with every field, and one without heading
\* and speed.
LocationPushes ==
    {[orderId |-> id, driverId |-> id + 10, latitude |-> 2, longitude |-> 2,
      heading |-> h, speed |-> h, timestamp |-> 2] :
        id \in TrackIds, h \in {Undefined, "90"}}

\* The pushes of a driver app that sends every field.
FullLocationPushes == {p \in LocationPushes : p.heading # Undefined}

StatusPushes == [orderId : TrackIds, status : TrackStatuses]

DeliveredPushes == {p \in StatusPushes : p.status = "DELIVERED"}

\* How GET /tracking/order/:id fails.
RestFailures ==
    {[status |-> 401, message |-> Undefined],
     [status |-> 500, message |-> Undefined],
     [status |-> 500, message |-> "Pedido nao encontrado"]}

\* The DriverLocation set from a snapshot that has driver.location: heading
\* and speed are not set.
locationOfSnapshot(data) ==
    [driverId |-> data.driver.id,
     latitude |-> data.driver.location.latitude,
     longitude |-> data.driver.location.longitude,
     heading |-> Undefined,
     speed |-> Undefined,
     timestamp |-> data.driver.location.lastUpdate]

\* The DriverLocation a driverLocation push sets.
locationOfPush(data) ==
    [driverId |-> data.driverId,
     latitude |-> data.latitude,
     longitude |-> data.longitude,
     heading |-> data.heading,
     speed |-> data.speed,
     timestamp |-> data.timestamp]

\* A catch that ignores the message the server sent.
fetchErrorGeneric(err) ==
    IF err.status = 401 THEN "Sessao expirada. Faca login novamente."
    ELSE "Erro ao carregar rastreamento"

\* setError in the catch of fetchTrackingData (the messages are spelled here
\* without their diacritics).
fetchError(err) ==
    IF err.status = 401 THEN "Sessao expirada. Faca login novamente."
    ELSE IF err.message # Undefined THEN err.message
    ELSE "Erro ao carregar rastreamento"

\* A state setter: React drops the update of an unmounted component.
SetState(new, old) == IF mounted THEN new ELSE old

\* What a tracking session sends: an emit on socket sock, or a REST GET
\* (sock 0).
Sent(ev, id, sock) == [ev |-> ev, id |-> id, sock |-> sock]

Get(id) == Sent("GET", id, 0)

TrackOp(op, id) == [op |-> op, id |-> id, data |-> NoData]

PushOp(op, data) == [op |-> op, id |-> data.orderId, data |-> data]

\* The variables of the orders session, which a tracking screen does not run.
ordersOnly == <<connected, joinedRoomsRef, pendingJoinsRef, mountOrderId,
                leftIds, queuedByJoin, screenVars>>

SocketIds == 1..Len(sockets)

SetSocket(s, status) == [sockets EXCEPT ![s].status = status]

\* The acknowledgments still due once socket s has gone.
AcksWithout(s) == {a \in acks : a.sock # s}

(***************************************************************************)
(* hooks/useOrderTracking.ts: callbacks memoized on orderId.  Every run of *)
(* the main effect uses the fetchTrackingData, connect and disconnect of   *)
(* its render, so a socket's handlers, a pending token read and an armed   *)
(* timer carry the orderId (oid) of that render, and connect carries the   *)
(* trackingData of that render as well (dataWasNull).                      *)
(***************************************************************************)

closureUnused == <<orderIdRef, hasConnectedRef, hasCleanup, ordersOnly, checkoutVars>>

\* fetchTrackingData of the render with orderId id: the GET it issues.
fetchTrackingData(id) == IF id = NoOrder THEN {} ELSE {id}

fetchSent(id) == IF id = NoOrder THEN <<>> ELSE <<Get(id)>>

\* A fetch that keeps the snapshot there is and only fills an empty one.
applySnapshotKeepsFirst(data) ==
    /\ trackingData' = SetState(IF trackingData = NoData THEN data ELSE trackingData,
                                trackingData)
    /\ driverLocation' = SetState(IF HasLocation(data) THEN locationOfSnapshot(data)
                                  ELSE driverLocation, driverLocation)

\* The try block of fetchTrackingData once the response is there.
applySnapshot(data) ==
    /\ trackingData' = SetState(data, trackingData)
    /\ driverLocation' = SetState(IF HasLocation(data) THEN locationOfSnapshot(data)
                                  ELSE driverLocation, driverLocation)

ClosureInit ==
    /\ mounted = TRUE
    /\ orderId \in TrackIds \cup {NoOrder}
    /\ isConnected = FALSE
    /\ trackingData = NoData
    /\ driverLocation = NoLocation
    /\ error = NoError
    /\ socketRef = 0
    /\ sockets = <<>>
    /\ restCalls = fetchTrackingData(orderId)
    /\ tokenReads = {[oid |-> id, dataWasNull |-> TRUE] : id \in fetchTrackingData(orderId)}
    /\ emitted = fetchSent(orderId)
    /\ acks = {}
    /\ timers = {}
    /\ changes = 0
    /\ lastOp = TrackOp("mount", orderId)
    /\ orderIdRef = NoOrder
    /\ hasConnectedRef = FALSE
    /\ hasCleanup = TRUE
    /\ connected = FALSE
    /\ joinedRoomsRef = <<>>
    /\ pendingJoinsRef = <<>>
    /\ mountOrderId = NoOrder
    /\ leftIds = {}
    /\ queuedByJoin = {}
    /\ ScreenIdle
    /\ CheckoutIdle

\* connect after the token read: the socket is created, its handlers are
\* registered and the timer is armed.
ClosureTokenRead(t) ==
    /\ t \in tokenReads
    /\ tokenReads' = tokenReads \ {t}
    /\ sockets' = Append(sockets, [status |-> "connecting", oid |-> t.oid])
    /\ socketRef' = Len(sockets) + 1
    /\ timers' = timers \cup {t}
    /\ emitted' = <<>>
    /\ lastOp' = TrackOp("tokenRead", t.oid)
    /\ UNCHANGED <<mounted, orderId, isConnected, trackingData, driverLocation,
                   error, restCalls, acks, changes, closureUnused>>

\* connect when the token read throws: the catch block.
ClosureTokenReadFails(t) ==
    /\ t \in tokenReads
    /\ tokenReads' = tokenReads \ {t}
    /\ error' = SetState("Falha ao conectar", error)
    /\ restCalls' = restCalls \cup fetchTrackingData(t.oid)
    /\ emitted' = fetchSent(t.oid)
    /\ lastOp' = TrackOp("tokenReadFails", t.oid)
    /\ UNCHANGED <<mounted, orderId, isConnected, trackingData, driverLocation,
                   socketRef, sockets, acks, timers, changes, closureUnused>>

\* The 'connect' handler of socket s: it emits through socketRef.current.
ClosureSocketConnect(s) ==
    /\ s \in SocketIds
    /\ sockets[s].status = "connecting"
    /\ sockets' = SetSocket(s, "connected")
    /\ isConnected' = SetState(TRUE, isConnected)
    /\ error' = SetState(NoError, error)
    /\ emitted' = IF socketRef = 0 THEN <<>>
                  ELSE <<Sent("subscribeToOrder", sockets[s].oid, socketRef),
                         Sent("getOrderTracking", sockets[s].oid, socketRef)>>
    /\ acks' = IF socketRef = 0 THEN acks
               ELSE acks \cup {[sock |-> socketRef, id |-> sockets[s].oid, full |-> TRUE]}
    /\ lastOp' = TrackOp("connect", sockets[s].oid)
    /\ UNCHANGED <<mounted, orderId, trackingData, driverLocation, socketRef,
                   tokenReads, restCalls, timers, changes, closureUnused>>

\* The 'disconnect' handler; the socket then reconnects by itself, and the
\* acknowledgments it owed are lost.
ClosureSocketDisconnect(s) ==
    /\ s \in SocketIds
    /\ sockets[s].status = "connected"
    /\ sockets' = SetSocket(s, "connecting")
    /\ isConnected' = SetState(FALSE, isConnected)
    /\ acks' = AcksWithout(s)
    /\ emitted' = <<>>
    /\ lastOp' = TrackOp("disconnect", sockets[s].oid)
    /\ UNCHANGED <<mounted, orderId, trackingData, driverLocation, error,
                   socketRef, tokenReads, restCalls, timers, changes, closureUnused>>

\* The 'connect_error' handler: fall back to REST.
ClosureConnectError(s) ==
    /\ s \in SocketIds
    /\ sockets[s].status = "connecting"
    /\ restCalls' = restCalls \cup fetchTrackingData(sockets[s].oid)
    /\ emitted' = fetchSent(sockets[s].oid)
    /\ lastOp' = TrackOp("connect_error", sockets[s].oid)
    /\ UNCHANGED <<mounted, orderId, isConnected, trackingData, driverLocation,
                   error, socketRef, sockets, tokenReads, acks, timers, changes,
                   closureUnused>>

\* The 'error' handler.
ClosureSocketError(s) ==
    /\ s \in SocketIds
    /\ sockets[s].status = "connected"
    /\ error' = SetState("Erro de conexao", error)
    /\ emitted' = <<>>
    /\ lastOp' = TrackOp("error", sockets[s].oid)
    /\ UNCHANGED <<mounted, orderId, isConnected, trackingData, driverLocation,
                   socketRef, sockets, tokenReads, restCalls, acks, timers,
                   changes, closureUnused>>

\* The 'driverLocation' handler of socket s: the id is compared with the
\* orderId of the render that registered the handler.
ClosureDriverLocation(s, data) ==
    /\ s \in SocketIds
    /\ sockets[s].status = "connected"
    /\ driverLocation' = IF data.orderId = sockets[s].oid
                         THEN SetState(locationOfPush(data), driverLocation)
                         ELSE driverLocation
    /\ emitted' = <<>>
    /\ lastOp' = PushOp("driverLocation", data)
    /\ UNCHANGED <<mounted, orderId, isConnected, trackingData, error, socketRef,
                   sockets, tokenReads, restCalls, acks, timers, changes,
                   closureUnused>>

\* The 'orderTracking' handler: any snapshot pushed is taken.
ClosureOrderTracking(s, data) ==
    /\ s \in SocketIds
    /\ sockets[s].status = "connected"
    /\ applySnapshot(data)
    /\ emitted' = <<>>
    /\ lastOp' = PushOp("orderTracking", data)
    /\ UNCHANGED <<mounted, orderId, isConnected, error, socketRef, sockets,
                   tokenReads, restCalls, acks, timers, changes, closureUnused>>

\* An updater that makes a snapshot out of a status when there is none.
withStatusFabricates(prev, status) ==
    IF prev = NoData THEN [orderId |-> NoOrder, status |-> status]
    ELSE [prev EXCEPT !.status = status]

\* setTrackingData(prev => prev ? {...prev, status} : null)
withStatus(prev, status) ==
    IF prev = NoData THEN NoData ELSE [prev EXCEPT !.status = status]

\* The 'orderStatusUpdate' handler of socket s.
ClosureOrderStatusUpdate(s, data) ==
    /\ s \in SocketIds
    /\ sockets[s].status = "connected"
    /\ trackingData' = IF data.orderId = sockets[s].oid
                       THEN SetState(withStatus(trackingData, data.status), trackingData)
                       ELSE trackingData
    /\ emitted' = <<>>
    /\ lastOp' = PushOp("orderStatusUpdate", data)
    /\ UNCHANGED <<mounted, orderId, isConnected, driverLocation, error,
                   socketRef, sockets, tokenReads, restCalls, acks, timers,
                   changes, closureUnused>>

\* The 'driverArrived' handler only logs.
ClosureDriverArrived(s, id) ==
    /\ s \in SocketIds
    /\ sockets[s].status = "connected"
    /\ emitted' = <<>>
    /\ lastOp' = TrackOp("driverArrived", id)
    /\ UNCHANGED <<mounted, orderId, isConnected, trackingData, driverLocation,
                   error, socketRef, sockets, tokenReads, restCalls, acks,
                   timers, changes, closureUnused>>

\* The acknowledgment of a getOrderTracking request with a snapshot: the
\* request of the connect handler (full) sets the driver location too,
\* the one of refresh only the snapshot.
ClosureAck(a, data) ==
    /\ a \in acks
    /\ sockets[a.sock].status = "connected"
    /\ acks' = acks \ {a}
    /\ IF a.full THEN applySnapshot(data)
       ELSE /\ trackingData' = SetState(data, trackingData)
            /\ driverLocation' = driverLocation
    /\ emitted' = <<>>
    /\ lastOp' = PushOp("ack", data)
    /\ UNCHANGED <<mounted, orderId, isConnected, error, socketRef, sockets,
                   tokenReads, restCalls, timers, changes, closureUnused>>

\* An acknowledgment without data changes nothing.
ClosureAckEmpty(a) ==
    /\ a \in acks
    /\ sockets[a.sock].status = "connected"
    /\ acks' = acks \ {a}
    /\ emitted' = <<>>
    /\ lastOp' = TrackOp("ackEmpty", a.id)
    /\ UNCHANGED <<mounted, orderId, isConnected, trackingData, driverLocation,
                   error, socketRef, sockets, tokenReads, restCalls, timers,
                   changes, closureUnused>>

\* fetchTrackingData after the GET answered.
ClosureRestOk(id, data) ==
    /\ id \in restCalls
    /\ restCalls' = restCalls \ {id}
    /\ applySnapshot(data)
    /\ error' = SetState(NoError, error)
    /\ emitted' = <<>>
    /\ lastOp' = PushOp("restOk", data)
    /\ UNCHANGED <<mounted, orderId, isConnected, socketRef, sockets,
                   tokenReads, acks, timers, changes, closureUnused>>

\* fetchTrackingData after the GET failed.
ClosureRestFails(id, err) ==
    /\ id \in restCalls
    /\ restCalls' = restCalls \ {id}
    /\ error' = SetState(fetchError(err), error)
    /\ emitted' = <<>>
    /\ lastOp' = [TrackOp("restFails", id) EXCEPT !.data = err]
    /\ UNCHANGED <<mounted, orderId, isConnected, trackingData, driverLocation,
                   socketRef, sockets, tokenReads, acks, timers, changes,
                   closureUnused>>

\* The setTimeout callback: it tests the trackingData connect closed over.
ClosureTimerFires(t) ==
    /\ t \in timers
    /\ timers' = timers \ {t}
    /\ restCalls' = IF t.dataWasNull THEN restCalls \cup fetchTrackingData(t.oid)
                    ELSE restCalls
    /\ emitted' = IF t.dataWasNull THEN fetchSent(t.oid) ELSE <<>>
    /\ lastOp' = TrackOp("timer", t.oid)
    /\ UNCHANGED <<mounted, orderId, isConnected, trackingData, driverLocation,
                   error, socketRef, sockets, tokenReads, acks, changes,
                   closureUnused>>

\* refresh of the latest render.
ClosureRefresh ==
    /\ mounted
    /\ LET viaSocket == /\ socketRef # 0
                        /\ sockets[socketRef].status = "connected"
                        /\ orderId # NoOrder
       IN  /\ acks' = IF viaSocket
                      THEN acks \cup {[sock |-> socketRef, id |-> orderId, full |-> FALSE]}
                      ELSE acks
           /\ restCalls' = IF viaSocket THEN restCalls
                           ELSE restCalls \cup fetchTrackingData(orderId)
           /\ emitted' = IF viaSocket
                         THEN <<Sent("getOrderTracking", orderId, socketRef)>>
                         ELSE fetchSent(orderId)
    /\ lastOp' = TrackOp("refresh", orderId)
    /\ UNCHANGED <<mounted, orderId, isConnected, trackingData, driverLocation,
                   error, socketRef, sockets, tokenReads, timers, changes,
                   closureUnused>>

\* disconnect of the render with orderId id: what it emits and the sockets
\* it leaves.
disconnectSent(id) ==
    IF socketRef # 0 /\ id # NoOrder
    THEN <<Sent("unsubscribeFromOrder", id, socketRef)>> ELSE <<>>

disconnectSockets == IF socketRef = 0 THEN sockets ELSE SetSocket(socketRef, "closed")

\* The caller passes another orderId: the cleanup of the main effect
\* (disconnect of the previous render), then the effect of the new render.
ClosureSetOrderId(new) ==
    /\ mounted
    /\ new # orderId
    /\ changes < MaxChanges
    /\ changes' = changes + 1
    /\ orderId' = new
    /\ sockets' = disconnectSockets
    /\ socketRef' = 0
    /\ acks' = AcksWithout(socketRef)
    /\ isConnected' = FALSE
    /\ restCalls' = restCalls \cup fetchTrackingData(new)
    /\ tokenReads' = tokenReads \cup
           {[oid |-> id, dataWasNull |-> trackingData = NoData] : id \in fetchTrackingData(new)}
    /\ emitted' = disconnectSent(orderId) \o fetchSent(new)
    /\ lastOp' = TrackOp("setOrderId", new)
    /\ UNCHANGED <<mounted, trackingData, driverLocation, error, timers,
                   closureUnused>>

\* Unmount: the cleanup of the main effect.
ClosureUnmount ==
    /\ mounted
    /\ mounted' = FALSE
    /\ sockets' = disconnectSockets
    /\ socketRef' = 0
    /\ acks' = AcksWithout(socketRef)
    /\ emitted' = disconnectSent(orderId)
    /\ lastOp' = TrackOp("unmount", orderId)
    /\ UNCHANGED <<orderId, isConnected, trackingData, driverLocation, error,
                   tokenReads, restCalls, timers, changes, closureUnused>>

\* Any caller, which may pass another orderId at any moment, against a
\* server that answers every request; the caller does not call refresh.
ClosureNext ==
    \/ \E t \in tokenReads : ClosureTokenRead(t)
    \/ \E s \in SocketIds :
          \/ ClosureSocketConnect(s)
          \/ ClosureSocketDisconnect(s)
          \/ ClosureConnectError(s)
          \/ \E data \in FullLocationPushes : ClosureDriverLocation(s, data)
          \/ \E id \in TrackIds : \E data \in DrivenSnapshots(id) :
                ClosureOrderTracking(s, data)
          \/ \E data \in DeliveredPushes : ClosureOrderStatusUpdate(s, data)
          \/ \E id \in TrackIds : ClosureDriverArrived(s, id)
    \/ \E a \in acks :
          \/ \E data \in DrivenSnapshots(a.id) : ClosureAck(a, data)
          \/ ClosureAckEmpty(a)
    \/ \E id \in restCalls :
          \/ \E data \in DrivenSnapshots(id) : ClosureRestOk(id, data)
    \/ \E t \in timers : ClosureTimerFires(t)
    \/ \E new \in TrackIds \cup {NoOrder} : ClosureSetOrderId(new)
    \/ ClosureUnmount

SpecTrackingClosure == ClosureInit /\ [][ClosureNext]_vars

(***************************************************************************)
(* The same hook with the reconnection attempts of its socket counted.     *)
(* connect calls io() with transports and auth only, so reconnection is    *)
(* on and reconnectionAttempts is socket.io's default, Infinity: the       *)
(* manager of the socket starts another attempt after every failed one.    *)
(* A socket carries attempts, the attempts its manager has started since   *)
(* the socket was last connected.                                          *)
(***************************************************************************)

\* How far the model counts.
MaxAttempts == 11

\* The reconnectionAttempts that useOrdersSocket and unnamed/part_000 pass.
reconnectionAttempts == 10

\* connect after the token read: io() and the first attempt to open.
CountedTokenRead(t) ==
    /\ t \in tokenReads
    /\ tokenReads' = tokenReads \ {t}
    /\ sockets' = Append(sockets, [status |-> "connecting", oid |-> t.oid,
                                   attempts |-> 0])
    /\ socketRef' = Len(sockets) + 1
    /\ timers' = timers \cup {t}
    /\ emitted' = <<>>
    /\ lastOp' = TrackOp("tokenRead", t.oid)
    /\ UNCHANGED <<mounted, orderId, isConnected, trackingData, driverLocation,
                   error, restCalls, acks, changes, closureUnused>>

\* An attempt succeeds: the manager resets its count and the 'connect'
\* handler runs.
CountedSocketConnect(s) ==
    /\ s \in SocketIds
    /\ sockets[s].status = "connecting"
    /\ sockets' = [sockets EXCEPT ![s].status = "connected", ![s].attempts = 0]
    /\ isConnected' = SetState(TRUE, isConnected)
    /\ error' = SetState(NoError, error)
    /\ emitted' = IF socketRef = 0 THEN <<>>
                  ELSE <<Sent("subscribeToOrder", sockets[s].oid, socketRef),
                         Sent("getOrderTracking", sockets[s].oid, socketRef)>>
    /\ acks' = IF socketRef = 0 THEN acks
               ELSE acks \cup {[sock |-> socketRef, id |-> sockets[s].oid, full |-> TRUE]}
    /\ lastOp' = TrackOp("connect", sockets[s].oid)
    /\ UNCHANGED <<mounted, orderId, trackingData, driverLocation, socketRef,
                   tokenReads, restCalls, timers, changes, closureUnused>>

\* The connection is lost: the 'disconnect' handler runs and the manager
\* starts its first reconnection attempt.
CountedSocketDisconnect(s) ==
    /\ s \in SocketIds
    /\ sockets[s].status = "connected"
    /\ sockets' = [sockets EXCEPT ![s].status = "connecting", ![s].attempts = 1]
    /\ isConnected' = SetState(FALSE, isConnected)
    /\ acks' = AcksWithout(s)
    /\ emitted' = <<>>
    /\ lastOp' = TrackOp("disconnect", sockets[s].oid)
    /\ UNCHANGED <<mounted, orderId, trackingData, driverLocation, error,
                   socketRef, tokenReads, restCalls, timers, changes, closureUnused>>

\* An attempt fails: the 'connect_error' handler falls back to REST, and
\* the manager, which has no limit to compare its count with, starts the
\* next attempt.
CountedConnectError(s) ==
    /\ s \in SocketIds
    /\ sockets[s].status = "connecting"
    /\ sockets[s].attempts < MaxAttempts
    /\ sockets' = [sockets EXCEPT ![s].attempts = @ + 1]
    /\ restCalls' = restCalls \cup fetchTrackingData(sockets[s].oid)
    /\ emitted' = fetchSent(sockets[s].oid)
    /\ lastOp' = TrackOp("connect_error", sockets[s].oid)
    /\ UNCHANGED <<mounted, orderId, isConnected, trackingData, driverLocation,
                   error, socketRef, tokenReads, acks, timers, changes,
                   closureUnused>>

\* One tracking screen on a network that drops and refuses connections; the
\* server sends no pushes.
ReconnectNext ==
    \/ \E t \in tokenReads : CountedTokenRead(t)
    \/ \E s \in SocketIds :
          \/ CountedSocketConnect(s)
          \/ CountedSocketDisconnect(s)
          \/ CountedConnectError(s)
    \/ \E a \in acks : \E data \in DrivenSnapshots(a.id) : ClosureAck(a, data)
    \/ \E id \in restCalls : \E data \in DrivenSnapshots(id) : ClosureRestOk(id, data)
    \/ \E t \in timers : ClosureTimerFires(t)
    \/ ClosureUnmount

SpecTrackingReconnect == ClosureInit /\ [][ReconnectNext]_vars

(***************************************************************************)
(* unnamed/part_000: the version of useOrderTracking whose handlers read   *)
(* orderIdRef.current when they run.  A socket's handlers emit through     *)
(* their own socket, and the cleanup is only there after a run of the main *)
(* effect that got past its two early returns (hasCleanup).                *)
(***************************************************************************)

refUnused == <<timers, ordersOnly, checkoutVars>>

\* A fetchTrackingData whose GET never reaches the server.
refFetchNothing(currentOrderId) == {}

\* fetchTrackingData: the GET it issues, for orderIdRef.current.
refFetch(currentOrderId) == IF currentOrderId = NoOrder THEN {} ELSE {currentOrderId}

refFetchSent(currentOrderId) ==
    IF currentOrderId = NoOrder THEN <<>> ELSE <<Get(currentOrderId)>>

RefInit ==
    /\ mounted = TRUE
    /\ orderId \in TrackIds \cup {NoOrder}
    /\ orderIdRef = orderId
    /\ hasConnectedRef = FALSE
    /\ hasCleanup = (orderId # NoOrder)
    /\ isConnected = FALSE
    /\ trackingData = NoData
    /\ driverLocation = NoLocation
    /\ error = NoError
    /\ socketRef = 0
    /\ sockets = <<>>
    /\ restCalls = refFetch(orderId)
    /\ tokenReads = {[run |-> 0] : id \in refFetch(orderId)}
    /\ emitted = refFetchSent(orderId)
    /\ acks = {}
    /\ timers = {}
    /\ changes = 0
    /\ lastOp = TrackOp("mount", orderId)
    /\ connected = FALSE
    /\ joinedRoomsRef = <<>>
    /\ pendingJoinsRef = <<>>
    /\ mountOrderId = NoOrder
    /\ leftIds = {}
    /\ queuedByJoin = {}
    /\ ScreenIdle
    /\ CheckoutIdle

\* connectSocket after the token read: the socket is created and its
\* handlers are registered.
RefTokenRead(t) ==
    /\ t \in tokenReads
    /\ tokenReads' = tokenReads \ {t}
    /\ sockets' = Append(sockets, [status |-> "connecting", oid |-> NoOrder])
    /\ socketRef' = Len(sockets) + 1
    /\ hasConnectedRef' = TRUE
    /\ emitted' = <<>>
    /\ lastOp' = TrackOp("tokenRead", orderIdRef)
    /\ UNCHANGED <<mounted, orderId, orderIdRef, hasCleanup, isConnected,
                   trackingData, driverLocation, error, restCalls, acks, changes,
                   refUnused>>

\* connectSocket when the token read throws: the catch block.
RefTokenReadFails(t) ==
    /\ t \in tokenReads
    /\ tokenReads' = tokenReads \ {t}
    /\ error' = SetState("Falha ao conectar", error)
    /\ restCalls' = restCalls \cup refFetch(orderIdRef)
    /\ emitted' = refFetchSent(orderIdRef)
    /\ lastOp' = TrackOp("tokenReadFails", orderIdRef)
    /\ UNCHANGED <<mounted, orderId, orderIdRef, hasConnectedRef, hasCleanup,
                   isConnected, trackingData, driverLocation, socketRef, sockets,
                   acks, changes, refUnused>>

\* A 'connect' handler that asks for the data before it subscribes.
connectSentFetchFirst(s) ==
    IF orderIdRef = NoOrder THEN <<>>
    ELSE <<Sent("getOrderTracking", orderIdRef, s),
           Sent("subscribeToOrder", orderIdRef, s)>>

\* What the 'connect' handler of socket s emits, in order.
connectSent(s) ==
    IF orderIdRef = NoOrder THEN <<>>
    ELSE <<Sent("subscribeToOrder", orderIdRef, s),
           Sent("getOrderTracking", orderIdRef, s)>>

\* The 'connect' handler of socket s.
RefSocketConnect(s) ==
    /\ s \in SocketIds
    /\ sockets[s].status = "connecting"
    /\ sockets' = SetSocket(s, "connected")
    /\ isConnected' = SetState(TRUE, isConnected)
    /\ error' = SetState(NoError, error)
    /\ emitted' = connectSent(s)
    /\ acks' = IF orderIdRef = NoOrder THEN acks
               ELSE acks \cup {[sock |-> s, id |-> orderIdRef, full |-> TRUE]}
    /\ lastOp' = TrackOp("connect", orderIdRef)
    /\ UNCHANGED <<mounted, orderId, orderIdRef, hasConnectedRef, hasCleanup,
                   trackingData, driverLocation, socketRef, tokenReads, restCalls,
                   changes, refUnused>>

\* The 'disconnect' handler; the socket then reconnects by itself, and the
\* acknowledgments it owed are lost.
RefSocketDisconnect(s) ==
    /\ s \in SocketIds
    /\ sockets[s].status = "connected"
    /\ sockets' = SetSocket(s, "connecting")
    /\ isConnected' = SetState(FALSE, isConnected)
    /\ acks' = AcksWithout(s)
    /\ emitted' = <<>>
    /\ lastOp' = TrackOp("disconnect", orderIdRef)
    /\ UNCHANGED <<mounted, orderId, orderIdRef, hasConnectedRef, hasCleanup,
                   trackingData, driverLocation, error, socketRef, tokenReads,
                   restCalls, changes, refUnused>>

\* The 'connect_error' handler: fall back to REST.
RefConnectError(s) ==
    /\ s \in SocketIds
    /\ sockets[s].status = "connecting"
    /\ restCalls' = restCalls \cup refFetch(orderIdRef)
    /\ emitted' = refFetchSent(orderIdRef)
    /\ lastOp' = TrackOp("connect_error", orderIdRef)
    /\ UNCHANGED <<mounted, orderId, orderIdRef, hasConnectedRef, hasCleanup,
                   isConnected, trackingData, driverLocation, error, socketRef,
                   sockets, tokenReads, acks, changes, refUnused>>

\* The 'error' handler.
RefSocketError(s) ==
    /\ s \in SocketIds
    /\ sockets[s].status = "connected"
    /\ error' = SetState("Erro de conexao", error)
    /\ emitted' = <<>>
    /\ lastOp' = TrackOp("error", orderIdRef)
    /\ UNCHANGED <<mounted, orderId, orderIdRef, hasConnectedRef, hasCleanup,
                   isConnected, trackingData, driverLocation, socketRef, sockets,
                   tokenReads, restCalls, acks, changes, refUnused>>

\* A driverLocation handler that lets the heading and speed of the previous
\* sample stand when the push has none.
onDriverLocationMerges(prev, data, currentOrderId) ==
    IF data.orderId # currentOrderId THEN prev
    ELSE [locationOfPush(data) EXCEPT
            !.heading = IF data.heading = Undefined /\ prev # NoLocation
                        THEN prev.heading ELSE data.heading,
            !.speed = IF data.speed = Undefined /\ prev # NoLocation
                      THEN prev.speed ELSE data.speed]

\* The driver location after the 'driverLocation' handler.
onDriverLocation(prev, data, currentOrderId) ==
    IF data.orderId = currentOrderId THEN locationOfPush(data) ELSE prev

\* The snapshot after the 'orderStatusUpdate' handler.
onOrderStatusUpdate(prev, data, currentOrderId) ==
    IF data.orderId = currentOrderId THEN withStatus(prev, data.status) ELSE prev

RefDriverLocation(s, data) ==
    /\ s \in SocketIds
    /\ sockets[s].status = "connected"
    /\ driverLocation' =
           SetState(onDriverLocation(driverLocation, data, orderIdRef), driverLocation)
    /\ emitted' = <<>>
    /\ lastOp' = PushOp("driverLocation", data)
    /\ UNCHANGED <<mounted, orderId, orderIdRef, hasConnectedRef, hasCleanup,
                   isConnected, trackingData, error, socketRef, sockets,
                   tokenReads, restCalls, acks, changes, refUnused>>

\* The 'orderTracking' handler: any snapshot pushed is taken.
RefOrderTracking(s, data) ==
    /\ s \in SocketIds
    /\ sockets[s].status = "connected"
    /\ applySnapshot(data)
    /\ emitted' = <<>>
    /\ lastOp' = PushOp("orderTracking", data)
    /\ UNCHANGED <<mounted, orderId, orderIdRef, hasConnectedRef, hasCleanup,
                   isConnected, error, socketRef, sockets, tokenReads, restCalls,
                   acks, changes, refUnused>>

RefOrderStatusUpdate(s, data) ==
    /\ s \in SocketIds
    /\ sockets[s].status = "connected"
    /\ trackingData' =
           SetState(onOrderStatusUpdate(trackingData, data, orderIdRef), trackingData)
    /\ emitted' = <<>>
    /\ lastOp' = PushOp("orderStatusUpdate", data)
    /\ UNCHANGED <<mounted, orderId, orderIdRef, hasConnectedRef, hasCleanup,
                   isConnected, driverLocation, error, socketRef, sockets,
                   tokenReads, restCalls, acks, changes, refUnused>>

\* The 'driverArrived' handler only logs.
RefDriverArrived(s, id) ==
    /\ s \in SocketIds
    /\ sockets[s].status = "connected"
    /\ emitted' = <<>>
    /\ lastOp' = TrackOp("driverArrived", id)
    /\ UNCHANGED <<mounted, orderId, orderIdRef, hasConnectedRef, hasCleanup,
                   isConnected, trackingData, driverLocation, error, socketRef,
                   sockets, tokenReads, restCalls, acks, changes, refUnused>>

\* The acknowledgment of a getOrderTracking request with a snapshot: the
\* request of the connect handler (full) sets the driver location too,
\* the one of refresh only the snapshot.
RefAck(a, data) ==
    /\ a \in acks
    /\ sockets[a.sock].status = "connected"
    /\ acks' = acks \ {a}
    /\ IF a.full THEN applySnapshot(data)
       ELSE /\ trackingData' = SetState(data, trackingData)
            /\ driverLocation' = driverLocation
    /\ emitted' = <<>>
    /\ lastOp' = PushOp("ack", data)
    /\ UNCHANGED <<mounted, orderId, orderIdRef, hasConnectedRef, hasCleanup,
                   isConnected, error, socketRef, sockets, tokenReads, restCalls,
                   changes, refUnused>>

\* An acknowledgment without data changes nothing.
RefAckEmpty(a) ==
    /\ a \in acks
    /\ sockets[a.sock].status = "connected"
    /\ acks' = acks \ {a}
    /\ emitted' = <<>>
    /\ lastOp' = TrackOp("ackEmpty", a.id)
    /\ UNCHANGED <<mounted, orderId, orderIdRef, hasConnectedRef, hasCleanup,
                   isConnected, trackingData, driverLocation, error, socketRef,
                   sockets, tokenReads, restCalls, changes, refUnused>>

\* fetchTrackingData after the GET answered.
RefRestOk(id, data) ==
    /\ id \in restCalls
    /\ restCalls' = restCalls \ {id}
    /\ applySnapshot(data)
    /\ error' = SetState(NoError, error)
    /\ emitted' = <<>>
    /\ lastOp' = PushOp("restOk", data)
    /\ UNCHANGED <<mounted, orderId, orderIdRef, hasConnectedRef, hasCleanup,
                   isConnected, socketRef, sockets, tokenReads, acks, changes,
                   refUnused>>

\* fetchTrackingData after the GET failed.
RefRestFails(id, err) ==
    /\ id \in restCalls
    /\ restCalls' = restCalls \ {id}
    /\ error' = SetState(fetchError(err), error)
    /\ emitted' = <<>>
    /\ lastOp' = [TrackOp("restFails", id) EXCEPT !.data = err]
    /\ UNCHANGED <<mounted, orderId, orderIdRef, hasConnectedRef, hasCleanup,
                   isConnected, trackingData, driverLocation, socketRef, sockets,
                   tokenReads, acks, changes, refUnused>>

RefRefresh ==
    /\ mounted
    /\ LET viaSocket == /\ socketRef # 0
                        /\ sockets[socketRef].status = "connected"
                        /\ orderIdRef # NoOrder
       IN  /\ acks' = IF viaSocket
                      THEN acks \cup {[sock |-> socketRef, id |-> orderIdRef, full |-> FALSE]}
                      ELSE acks
           /\ restCalls' = IF viaSocket THEN restCalls
                           ELSE restCalls \cup refFetch(orderIdRef)
           /\ emitted' = IF viaSocket
                         THEN <<Sent("getOrderTracking", orderIdRef, socketRef)>>
                         ELSE refFetchSent(orderIdRef)
    /\ lastOp' = TrackOp("refresh", orderIdRef)
    /\ UNCHANGED <<mounted, orderId, orderIdRef, hasConnectedRef, hasCleanup,
                   isConnected, trackingData, driverLocation, error, socketRef,
                   sockets, tokenReads, changes, refUnused>>

\* A cleanup that unsubscribes without looking at socketRef.current.
cleanupSentWithoutSocket ==
    IF hasCleanup /\ orderIdRef # NoOrder
    THEN <<Sent("unsubscribeFromOrder", orderIdRef, socketRef)>> ELSE <<>>

\* The cleanup of the main effect, when its last run returned one: what it
\* emits and the sockets it leaves.
cleanupSent ==
    IF hasCleanup /\ socketRef # 0 /\ orderIdRef # NoOrder
    THEN <<Sent("unsubscribeFromOrder", orderIdRef, socketRef)>> ELSE <<>>

cleanupSockets ==
    IF hasCleanup /\ socketRef # 0 THEN SetSocket(socketRef, "closed") ELSE sockets

cleanupSocketRef == IF hasCleanup THEN 0 ELSE socketRef

\* The caller passes another orderId: the cleanup of the main effect with
\* orderIdRef still at the previous id, then the orderIdRef effect, then the
\* main effect with its two early returns.
RefSetOrderId(new) ==
    /\ mounted
    /\ new # orderId
    /\ changes < MaxChanges
    /\ changes' = changes + 1
    /\ orderId' = new
    /\ orderIdRef' = new
    /\ sockets' = cleanupSockets
    /\ socketRef' = cleanupSocketRef
    /\ acks' = IF hasCleanup THEN AcksWithout(socketRef) ELSE acks
    /\ isConnected' = IF hasCleanup THEN FALSE ELSE isConnected
    /\ LET alreadyConnected == /\ ~hasCleanup
                               /\ hasConnectedRef
                               /\ socketRef # 0
                               /\ sockets[socketRef].status = "connected"
           runs == new # NoOrder /\ ~alreadyConnected
       IN  /\ hasCleanup' = runs
           /\ hasConnectedRef' = IF hasCleanup THEN FALSE ELSE hasConnectedRef
           /\ restCalls' = IF runs THEN restCalls \cup refFetch(new) ELSE restCalls
           /\ tokenReads' = IF runs THEN tokenReads \cup {[run |-> changes + 1]}
                            ELSE tokenReads
           /\ emitted' = cleanupSent \o (IF runs THEN refFetchSent(new) ELSE <<>>)
    /\ lastOp' = TrackOp("setOrderId", new)
    /\ UNCHANGED <<mounted, trackingData, driverLocation, error, refUnused>>

\* Unmount: the cleanup of the main effect, if there is one.
RefUnmount ==
    /\ mounted
    /\ mounted' = FALSE
    /\ sockets' = cleanupSockets
    /\ socketRef' = cleanupSocketRef
    /\ acks' = IF hasCleanup THEN AcksWithout(socketRef) ELSE acks
    /\ hasConnectedRef' = IF hasCleanup THEN FALSE ELSE hasConnectedRef
    /\ emitted' = cleanupSent
    /\ lastOp' = TrackOp("unmount", orderId)
    /\ UNCHANGED <<orderId, orderIdRef, hasCleanup, isConnected, trackingData,
                   driverLocation, error, tokenReads, restCalls, changes, refUnused>>

\* One mount observing one order until unmount.
SessionNext ==
    \/ \E t \in tokenReads : RefTokenRead(t) \/ RefTokenReadFails(t)
    \/ \E s \in SocketIds :
          \/ RefSocketConnect(s)
          \/ RefSocketDisconnect(s)
          \/ RefConnectError(s)
          \/ RefSocketError(s)
          \/ \E data \in LocationPushes : RefDriverLocation(s, data)
          \/ \E id \in TrackIds : \E data \in ServerSnapshots(id) :
                RefOrderTracking(s, data)
          \/ \E data \in StatusPushes : RefOrderStatusUpdate(s, data)
          \/ \E id \in TrackIds : RefDriverArrived(s, id)
    \/ \E a \in acks :
          \/ \E data \in ServerSnapshots(a.id) : RefAck(a, data)
          \/ RefAckEmpty(a)
    \/ \E id \in restCalls :
          \/ \E data \in ServerSnapshots(id) : RefRestOk(id, data)
          \/ \E err \in RestFailures : RefRestFails(id, err)
    \/ RefRefresh
    \/ RefUnmount

SpecTrackingSession == RefInit /\ [][SessionNext]_vars

\* Any caller, which may pass another orderId at any moment, against a
\* server that answers every request; the caller does not call refresh.
RefNext ==
    \/ \E t \in tokenReads : RefTokenRead(t)
    \/ \E s \in SocketIds :
          \/ RefSocketConnect(s)
          \/ RefSocketDisconnect(s)
          \/ RefConnectError(s)
          \/ \E data \in FullLocationPushes : RefDriverLocation(s, data)
          \/ \E id \in TrackIds : \E data \in DrivenSnapshots(id) :
                RefOrderTracking(s, data)
          \/ \E data \in DeliveredPushes : RefOrderStatusUpdate(s, data)
          \/ \E id \in TrackIds : RefDriverArrived(s, id)
    \/ \E a \in acks :
          \/ \E data \in DrivenSnapshots(a.id) : RefAck(a, data)
          \/ RefAckEmpty(a)
    \/ \E id \in restCalls : \E data \in DrivenSnapshots(id) : RefRestOk(id, data)
    \/ \E new \in TrackIds \cup {NoOrder} : RefSetOrderId(new)
    \/ RefUnmount

SpecTrackingRef == RefInit /\ [][RefNext]_vars

\* Any caller against a server that answers every request and pushes
\* nothing: what opens and closes sockets, without the push handlers (which
\* touch neither the refs nor the sockets).
RefQuietNext ==
    \/ \E t \in tokenReads : RefTokenRead(t)
    \/ \E s \in SocketIds :
          \/ RefSocketConnect(s)
          \/ RefSocketDisconnect(s)
          \/ RefConnectError(s)
    \/ \E a \in acks :
          \/ \E data \in DrivenSnapshots(a.id) : RefAck(a, data)
          \/ RefAckEmpty(a)
    \/ \E id \in restCalls : \E data \in DrivenSnapshots(id) : RefRestOk(id, data)
    \/ \E new \in TrackIds \cup {NoOrder} : RefSetOrderId(new)
    \/ RefUnmount

SpecTrackingRefQuiet == RefInit /\ [][RefQuietNext]_vars

\* The REST endpoint answers a request that is in flight.
RefRestAnswers ==
    \E id \in restCalls : \E data \in DrivenSnapshots(id) : RefRestOk(id, data)

\* The same, with a REST endpoint that answers every request in the end;
\* nothing is assumed about the token read or the socket.
SpecTrackingRefLive == SpecTrackingRefQuiet /\ WF_vars(RefRestAnswers)

(***************************************************************************)
(* Claims about the tracking session.                                      *)
(***************************************************************************)

\* C4: when the fallback timer expires it issues no REST fetch if a snapshot
\* has been populated by then, and exactly one REST fetch, for the order the
\* timer was armed for, if none has.  (The timer step leaves trackingData
\* alone, so the snapshot after the step is the snapshot at expiry.)
C4_FallbackTimerOnlyWhenNeeded ==
    lastOp.op = "timer" =>
        /\ (trackingData # NoData => emitted = <<>>)
        /\ (trackingData = NoData => emitted = <<Get(lastOp.id)>>)

\* C5: a driverLocation or orderStatusUpdate push for order X handled while
\* the caller's latest orderId is another order Y leaves the snapshot, the
\* driver location and the error as they were.
C5_StaleEventDiscard ==
    [][(/\ lastOp'.op \in {"driverLocation", "orderStatusUpdate"}
        /\ orderId' \in TrackIds
        /\ lastOp'.id # orderId')
       => UNCHANGED <<trackingData, driverLocation, error>>]_vars

\* C7: in a mounted hook, a driverLocation push for the observed order makes
\* the driver location exactly the pushed sample, field by field, and leaves
\* the snapshot alone; an orderStatusUpdate push for the observed order
\* changes nothing but the status of the snapshot there is.  (A socket
\* created after the unmount still runs its handlers, on state that is gone.)
C7_MergeVsReplace ==
    [][/\ (mounted /\ lastOp'.op = "driverLocation" /\ lastOp'.id = orderId) =>
            /\ driverLocation' = [driverId |-> lastOp'.data.driverId,
                                  latitude |-> lastOp'.data.latitude,
                                  longitude |-> lastOp'.data.longitude,
                                  heading |-> lastOp'.data.heading,
                                  speed |-> lastOp'.data.speed,
                                  timestamp |-> lastOp'.data.timestamp]
            /\ UNCHANGED <<trackingData, error>>
       /\ (mounted /\ lastOp'.op = "orderStatusUpdate" /\ lastOp'.id = orderId) =>
            /\ UNCHANGED <<driverLocation, error>>
            /\ trackingData' =
                   IF trackingData = NoData THEN NoData
                   ELSE [orderId |-> trackingData.orderId,
                         status |-> lastOp'.data.status,
                         driver |-> trackingData.driver,
                         restaurant |-> trackingData.restaurant]]_vars

\* A status push has just changed the status of the observed order's
\* snapshot, and the driver location is still the sample of an earlier
\* driverLocation push that carried no heading.
C7_Witness ==
    /\ mounted
    /\ lastOp.op = "orderStatusUpdate"
    /\ lastOp.id = orderId
    /\ trackingData # NoData
    /\ trackingData.status = "DELIVERED"
    /\ HasLocation(trackingData)
    /\ driverLocation # NoLocation
    /\ driverLocation.latitude = 2
    /\ driverLocation.heading = Undefined

(***************************************************************************)
(* Claims about teardown, in-flight requests and errors.                   *)
(***************************************************************************)

\* The sockets that have been created and not disconnected by the hook.
OpenSockets == {s \in SocketIds : sockets[s].status # "closed"}

\* C11: a hook instance has at most one socket that is not disconnected at
\* any time, and once the hook is unmounted every socket it ever created is
\* disconnected (so none created after the unmount stays open either).
C11_OneSocketClosedOnTeardown ==
    /\ Cardinality(OpenSockets) <= 1
    /\ ~mounted => OpenSockets = {}

\* What socket.disconnect() leaves in the record of a teardown.
DisconnectEm == Emission("disconnect", NoOrder)

\* C12: the unmount of the orders screen emits leaveOrder exactly once for
\* every id that was JOINED, none for any other id (PENDING ones included),
\* disconnects after the last emission and emits nothing after that, although
\* the screen's cleanup then calls leaveOrder for every id of the previous
\* active set; both sets are empty afterwards.
C12_TeardownLeavesOnce ==
    [][(lastOp'.op = "unmount" /\ ScreenUnmount) =>
          /\ \A id \in Elems(joinedRoomsRef) : Count(emitted', LeaveEm(id)) = 1
          /\ \A id \in Ids \ Elems(joinedRoomsRef) : Count(emitted', LeaveEm(id)) = 0
          /\ Len(emitted') = Len(joinedRoomsRef) + 1
          /\ emitted'[Len(emitted')] = DisconnectEm
          /\ leaveCalls' = previousOrderIdsRef
          /\ joinedRoomsRef' = <<>>
          /\ pendingJoinsRef' = <<>>
          /\ ~connected']_vars

\* The screen has unmounted with one id of its active set JOINED and another
\* only PENDING: its cleanup called leaveOrder for both, the first was
\* emitted once and the second never.
C12_Witness ==
    /\ lastOp.op = "unmount"
    /\ ~mounted
    /\ \E a \in Elems(leaveCalls), b \in Elems(leaveCalls) :
          /\ Count(emitted, LeaveEm(a)) = 1
          /\ Count(emitted, LeaveEm(b)) = 0
    /\ emitted[Len(emitted)] = DisconnectEm

\* C13: a close of the tracking session (the cleanup of the main effect, on
\* an orderId change or on unmount) that finds no socket, because none was
\* created yet or because an earlier close took it, emits nothing,
\* disconnects nothing, sets no error and leaves no socket; while the hook
\* is mounted the connected flag is false afterwards.
C13_CloseIdempotent ==
    [][(/\ lastOp'.op \in {"unmount", "setOrderId"}
        /\ hasCleanup
        /\ socketRef = 0)
       => /\ \A i \in 1..Len(emitted') : emitted'[i].ev # "unsubscribeFromOrder"
          /\ sockets' = sockets
          /\ socketRef' = 0
          /\ error' = error
          /\ mounted' => ~isConnected']_vars

\* The session was closed by an orderId change, which disconnected its
\* socket, and closed again by the unmount before the next socket existed:
\* the second close emitted nothing.
C13_Witness ==
    /\ lastOp.op = "unmount"
    /\ hasCleanup
    /\ changes = 1
    /\ orderIdRef # NoOrder
    /\ socketRef = 0
    /\ emitted = <<>>
    /\ sockets # <<>>
    /\ OpenSockets = {}

\* C14: whenever the REST response or the getOrderTracking acknowledgment
\* has just been applied in a mounted hook, the snapshot is the data that
\* arrival carried, whatever arrived before it and in whichever order: the
\* later arrival overwrites, the first one fills an empty snapshot, and the
\* snapshot is never empty after an arrival.
C14_LastWriteWins ==
    (mounted /\ lastOp.op \in {"restOk", "ack"}) =>
        /\ trackingData = lastOp.data
        /\ trackingData # NoData

\* Both paths have delivered and the acknowledgment came last: the REST
\* response had a driver (whose location is still held) and the
\* acknowledgment that overwrote it has none.
C14_Witness ==
    /\ mounted
    /\ lastOp.op = "ack"
    /\ restCalls = {}
    /\ acks = {}
    /\ trackingData = Snapshot(orderId, NoDriver)
    /\ driverLocation = locationOfSnapshot(Snapshot(orderId, DriverOf(orderId, TRUE)))

\* C15: with a REST endpoint that answers every request successfully, a
\* mounted hook that is given an order id gets a snapshot in the end (or is
\* unmounted first), whether or not the socket ever connects.
C15_InitialDataEventually ==
    (mounted /\ orderId # NoOrder) ~> (trackingData # NoData \/ ~mounted)

\* The snapshot has just been populated by the REST response while the
\* token read is still pending: no socket exists yet, let alone a connected
\* one.
C15_Witness ==
    /\ mounted
    /\ orderId # NoOrder
    /\ lastOp.op = "restOk"
    /\ trackingData = lastOp.data
    /\ trackingData.orderId = orderId
    /\ sockets = <<>>
    /\ tokenReads # {}


\* C16: a failed GET /tracking/order/:id sets the error to the
\* session-expired message on HTTP 401 and otherwise to the server's message
\* or, without one, to the generic message, and leaves the snapshot and the
\* driver location as they were; a GET that succeeded sets the error to null.
C16_RestErrorHandling ==
    [][/\ lastOp'.op = "restFails" =>
            /\ trackingData' = trackingData
            /\ driverLocation' = driverLocation
            /\ mounted =>
                 error' = IF lastOp'.data.status = 401
                             THEN "Sessao expirada. Faca login novamente."
                          ELSE IF lastOp'.data.message # Undefined
                             THEN lastOp'.data.message
                          ELSE "Erro ao carregar rastreamento"
       /\ (lastOp'.op = "restOk" /\ mounted) => error' = NoError]_vars

\* A refresh over REST was refused with 401 after a snapshot with a driver
\* location had been loaded: the data is still there, next to the error.
C16_Witness ==
    /\ mounted
    /\ lastOp.op = "restFails"
    /\ lastOp.data.status = 401
    /\ error = "Sessao expirada. Faca login novamente."
    /\ trackingData # NoData
    /\ driverLocation # NoLocation


\* C17: no socket is ever beyond its tenth reconnection attempt in a row,
\* that is, the attempts started since the socket was last connected never
\* exceed reconnectionAttempts.
C17_ReconnectionBounded ==
    \A s \in SocketIds : sockets[s].attempts <= reconnectionAttempts


\* C18: a REST response or a getOrderTracking acknowledgment that arrives
\* once its tracking session has been torn down (the hook is unmounted, or
\* the answer is for an order id that is no longer the hook's) changes
\* neither the snapshot nor the driver location nor the error.
C18_LateResultsDiscarded ==
    [][(/\ lastOp'.op \in {"restOk", "restFails", "ack"}
        /\ (~mounted \/ lastOp'.id # orderId))
       => /\ trackingData' = trackingData
          /\ driverLocation' = driverLocation
          /\ error' = error]_vars


\* C19: a fallback timer that fires once its session has been closed (the
\* hook is unmounted, or the timer was armed for an order id that is no
\* longer the hook's) issues no REST fetch.
C19_CloseCancelsTimer ==
    (lastOp.op = "timer" /\ (~mounted \/ lastOp.id # orderId)) => emitted = <<>>


\* C20: when the orderId option changes from an order A to another id or to
\* none, A is afterwards neither in joinedRoomsRef nor in pendingJoinsRef,
\* connected or not.
C20_OptionChangeForgetsOrder ==
    [][(lastOp'.op = "setOrderId" /\ orderId # NoOrder /\ orderId' # orderId)
       => /\ ~SetHas(joinedRoomsRef', orderId)
          /\ ~SetHas(pendingJoinsRef', orderId)]_vars


(***************************************************************************)
(* Claims about connect-time ordering, pushes and list reconciliation      *)
(***************************************************************************)

\* The positions of emission e in out.
Positions(out, e) == {i \in 1..Len(out) : out[i] = e}

PushHandlers == {"driverLocation", "orderStatusUpdate", "driverArrived"}

\* C22: a driverLocation, orderStatusUpdate or driverArrived push leaves an
\* empty snapshot empty and a snapshot that exists in existence: it is the
\* same order's snapshot afterwards, and only its status may differ.
C22_PushKeepsSnapshotExistence ==
    [][lastOp'.op \in PushHandlers =>
         /\ trackingData = NoData => trackingData' = NoData
         /\ trackingData # NoData =>
              /\ trackingData' # NoData
              /\ trackingData' = [trackingData EXCEPT !.status = trackingData'.status]]_vars

\* An orderStatusUpdate push for the observed order has just been handled
\* while the hook had no snapshot, and it still has none.
C22_Witness ==
    /\ mounted
    /\ lastOp.op = "orderStatusUpdate"
    /\ lastOp.id = orderId
    /\ orderIdRef = orderId
    /\ trackingData = NoData


\* C23: an orderStatusUpdate push with id X leaves the list as long as it
\* was and in the same order, changes nothing but the status of the entry
\* whose id is X, and changes nothing at all when no entry has id X.
C23_ListReconciliation ==
    [][lastOp'.op = "orderStatusUpdate" =>
         /\ Len(orders') = Len(orders)
         /\ \E st \in Statuses :
               \A i \in 1..Len(orders) :
                  orders'[i] = IF orders[i].id = lastOp'.id
                               THEN [orders[i] EXCEPT !.status = st]
                               ELSE orders[i]
         /\ (\A i \in 1..Len(orders) : orders[i].id # lastOp'.id)
               => orders' = orders]_vars

\* A push has just made the first of two listed orders CANCELLED, so that
\* the join/leave effect left its room; the second order is as it was.
C23_Witness ==
    /\ mounted
    /\ lastOp.op = "orderStatusUpdate"
    /\ Len(orders) = 2
    /\ orders[1].id = lastOp.id
    /\ orders[1].status = "CANCELLED"
    /\ leaveCalls = <<lastOp.id>>
    /\ orders[2].status = "PREPARING"
    /\ previousOrderIdsRef = <<orders[2].id>>


\* The ids of the listed orders whose status is DELIVERED or CANCELLED.
TerminalIds(os) == {os[i].id : i \in {k \in 1..Len(os) : os[k].status \in TerminalStatuses}}

\* C24: after every handler, the id of a listed order that is DELIVERED or
\* CANCELLED is neither in joinedRoomsRef nor in pendingJoinsRef, and a
\* connect handler emits no joinOrder for such an id.
C24_NoLeakForTerminalOrders ==
    [][/\ \A id \in TerminalIds(orders') :
             /\ ~SetHas(joinedRoomsRef', id)
             /\ ~SetHas(pendingJoinsRef', id)
       /\ lastOp'.op = "connect" =>
             \A id \in TerminalIds(orders) : Count(emitted', JoinEm(id)) = 0]_vars

\* An order that was queued, announced by a connect and pushed PREPARING and
\* then DELIVERED is still listed, and a later connect has just announced
\* another order but not this one.
C24_Witness ==
    /\ mounted
    /\ lastOp.op = "connect"
    /\ \E id \in TerminalIds(orders) :
          /\ e2eStage[id] = 4
          /\ Count(emitted, JoinEm(id)) = 0
          /\ ~SetHas(joinedRoomsRef, id)
    /\ emitted # <<>>


\* C25: when the observed order changes from an order A to another order or
\* to none, the driver location the hook holds is empty afterwards.
C25_LocationDiscardedOnSessionEnd ==
    [][(lastOp'.op = "setOrderId" /\ orderId # NoOrder /\ orderId' # orderId)
       => driverLocation' = NoLocation]_vars


\* C26: no id is in joinedRoomsRef and in pendingJoinsRef at once.
C26_JoinedPendingDisjoint ==
    \A id \in Ids : ~(SetHas(joinedRoomsRef, id) /\ SetHas(pendingJoinsRef, id))


\* C27: after every handler of a mounted screen, the ids in joinedRoomsRef
\* and pendingJoinsRef together are exactly the ids of the listed orders
\* that are neither DELIVERED nor CANCELLED, and previousOrderIdsRef holds
\* exactly those ids.
C27_MembershipMatchesActiveOrders ==
    mounted =>
        /\ Elems(joinedRoomsRef) \cup Elems(pendingJoinsRef) = Elems(activeOrderIds(orders))
        /\ previousOrderIdsRef = activeOrderIds(orders)

\* Two orders are listed, one active and one DELIVERED, the connection is
\* down after a push was handled, and only the active order is recorded.
C27_Witness ==
    /\ mounted
    /\ ~connected
    /\ Len(orders) = 2
    /\ Len(activeOrderIds(orders)) = 1
    /\ joinedRoomsRef = activeOrderIds(orders)
    /\ pendingJoinsRef = <<>>
    /\ \E id \in TerminalIds(orders) : e2eStage[id] = 4


\* C28: while a mounted hook observes an order, a snapshot it holds is the
\* snapshot of that order.
C28_SnapshotOfObservedOrder ==
    (mounted /\ orderId # NoOrder /\ trackingData # NoData)
        => trackingData.orderId = orderId


\* C29: when a mounted hook gets the data refresh() asked for, through the
\* acknowledgment of the getOrderTracking it emitted or through the REST
\* response, the error is null afterwards.
C29_RefreshClearsError ==
    [][(/\ mounted
        /\ \/ lastOp'.op = "restOk"
           \/ lastOp'.op = "ack" /\ \E a \in acks \ acks' : ~a.full)
       => error' = NoError]_vars


(***************************************************************************)
(* screens/CheckoutScreen.tsx: the Pix payment polling.  While pixData and *)
(* orderId are set an interval issues GET /orders/:id every 5000 ms; each  *)
(* tick awaits its own response, so a tick does not wait for the response  *)
(* of the tick before it.  A response with paymentStatus PAID clears the   *)
(* interval, clears the cart, shows the alert and navigates.               *)
(***************************************************************************)

\* How many requests of the interval can be in flight for one order.
MaxPolls == 2

checkoutUnused == <<isConnected, ordersOnly, trackVars>>

\* Before an order is placed: the checkout form is shown.
CheckoutInit ==
    /\ mounted = TRUE
    /\ orderId = NoOrder
    /\ isConnected = FALSE
    /\ emitted = <<>>
    /\ lastOp = TrackOp("mount", NoOrder)
    /\ connected = FALSE
    /\ joinedRoomsRef = <<>>
    /\ pendingJoinsRef = <<>>
    /\ mountOrderId = NoOrder
    /\ leftIds = {}
    /\ queuedByJoin = {}
    /\ ScreenIdle
    /\ TrackingIdle
    /\ CheckoutIdle

\* handlePlaceOrder, orderService.create has answered with a new order:
\* setOrderId(order.id).  The polling effect runs and returns at once, as
\* pixData is still null.
CheckoutOrderCreated(id) ==
    /\ mounted
    /\ orderId = NoOrder
    /\ ~pixData
    /\ polls[id] = 0 /\ confirmed[id] = 0 /\ id \notin paid
    /\ orderId' = id
    /\ emitted' = <<>>
    /\ lastOp' = TrackOp("orderCreated", id)
    /\ UNCHANGED <<mounted, checkoutVars, checkoutUnused>>

\* handlePlaceOrder, POST /payments/pix/:id has answered: setPixData(...).
\* The polling effect runs again and arms the interval for orderId.
CheckoutPixGenerated ==
    /\ mounted
    /\ orderId # NoOrder
    /\ ~pixData
    /\ pixData' = TRUE
    /\ pollInterval' = orderId
    /\ emitted' = <<>>
    /\ lastOp' = TrackOp("pixGenerated", orderId)
    /\ UNCHANGED <<mounted, orderId, polls, confirmed, paid, checkoutUnused>>

\* The Cancelar button of the Pix view: setPixData(null), setOrderId(null);
\* the cleanup of the polling effect clears the interval.
CheckoutCancelPix ==
    /\ mounted
    /\ pixData
    /\ pixData' = FALSE
    /\ orderId' = NoOrder
    /\ pollInterval' = NoOrder
    /\ emitted' = <<>>
    /\ lastOp' = TrackOp("cancelPix", orderId)
    /\ UNCHANGED <<mounted, polls, confirmed, paid, checkoutUnused>>

\* A tick of the interval: api.get(`/orders/${orderId}`) is issued.
CheckoutPollTick ==
    /\ pollInterval # NoOrder
    /\ polls[pollInterval] < MaxPolls
    /\ polls' = [polls EXCEPT ![pollInterval] = @ + 1]
    /\ emitted' = <<Get(pollInterval)>>
    /\ lastOp' = TrackOp("pollTick", pollInterval)
    /\ UNCHANGED <<mounted, orderId, pixData, pollInterval, confirmed, paid,
                   checkoutUnused>>

\* A tick's request is answered.  With paymentStatus PAID the callback
\* clears its interval and runs clearCart, Alert.alert and
\* navigation.navigate; none of these is a state update of the screen, so
\* they run whether or not the screen is still mounted.
CheckoutPollResponse(id) ==
    /\ polls[id] > 0
    /\ polls' = [polls EXCEPT ![id] = @ - 1]
    /\ pollInterval' = IF id \in paid /\ pollInterval = id THEN NoOrder ELSE pollInterval
    /\ confirmed' = IF id \in paid THEN [confirmed EXCEPT ![id] = @ + 1] ELSE confirmed
    /\ emitted' = <<>>
    /\ lastOp' = TrackOp("pollResponse", id)
    /\ UNCHANGED <<mounted, orderId, pixData, paid, checkoutUnused>>

\* A tick's request fails: the catch only logs.
CheckoutPollFails(id) ==
    /\ polls[id] > 0
    /\ polls' = [polls EXCEPT ![id] = @ - 1]
    /\ emitted' = <<>>
    /\ lastOp' = TrackOp("pollFails", id)
    /\ UNCHANGED <<mounted, orderId, pixData, pollInterval, confirmed, paid,
                   checkoutUnused>>

\* The customer pays the Pix charge of an order that is or was polled.
CheckoutPaymentReceived(id) ==
    /\ id \notin paid
    /\ pollInterval = id \/ polls[id] > 0
    /\ paid' = paid \cup {id}
    /\ emitted' = <<>>
    /\ lastOp' = TrackOp("paid", id)
    /\ UNCHANGED <<mounted, orderId, pixData, pollInterval, polls, confirmed,
                   checkoutUnused>>

\* The screen is unmounted: the cleanup of the polling effect clears the
\* interval.
CheckoutUnmount ==
    /\ mounted
    /\ mounted' = FALSE
    /\ pollInterval' = NoOrder
    /\ emitted' = <<>>
    /\ lastOp' = TrackOp("unmount", orderId)
    /\ UNCHANGED <<orderId, pixData, polls, confirmed, paid, checkoutUnused>>

CheckoutNext ==
    \/ \E id \in TrackIds : CheckoutOrderCreated(id)
    \/ CheckoutPixGenerated
    \/ CheckoutCancelPix
    \/ CheckoutPollTick
    \/ \E id \in TrackIds : CheckoutPollResponse(id)
    \/ \E id \in TrackIds : CheckoutPollFails(id)
    \/ \E id \in TrackIds : CheckoutPaymentReceived(id)
    \/ CheckoutUnmount

SpecCheckout == CheckoutInit /\ [][CheckoutNext]_vars

\* C30: for every order the payment-confirmed branch runs at most once, and
\* it does not run once the checkout screen is unmounted.
C30_PixConfirmsOnce ==
    [][/\ \A id \in TrackIds : confirmed'[id] <= 1
       /\ ~mounted => confirmed' = confirmed]_vars

=============================================================================
